---- MODULE Spec2Model ----
(***************************************************************************)
(* Model of the gorpc client call multiplexer (Practice/4-timeout/client.go) *)
(* and of the per-connection server dispatch engine (server.go of the same  *)
(* stage).  One Client on one connection, a bounded number of caller        *)
(* goroutines, the background receiver goroutine, and the remote peer and   *)
(* the transport as environment.                                            *)
(***************************************************************************)
EXTENDS Integers, Sequences, FiniteSets, TLC

\* ------------------------------------------------------------------ bounds
MaxCallers == 2
Callers == 1..MaxCallers

\* ------------------------------------------------------------ client model
\* holder of Client.sending: a caller id, or nobody
NoHolder == 0

\* error values seen by callers
NoErr == "nil"
ErrShutdown == "connection is shut down"
ErrWrite == "write error"
ErrRead == "read error"
ErrReadBody == "reading body read error"
ErrServer == "server error"
ErrVerb == "rpc server: can't find service Foo%d"
ErrVerbMissing == "rpc server: can't find service Foo%!d(MISSING)"
ErrCtx == "rpc client: call failed: context canceled"

\* the Call record nobody holds
NoCall == 0

VARIABLES
    seq,          \* Client.seq
    pending,      \* Client.pending : seq -> call (callers own one call each)
    closing,      \* Client.closing
    shutdown,     \* Client.shutdown
    sending,      \* holder of Client.sending
    header,       \* Client.header, the request header scratch
    codecClosed,  \* cc.Close() has been called by Client.Close
    connBroken,   \* the transport has failed
    cout,         \* stream client -> peer, items written by cc.Write
    cin,          \* stream peer -> client, items read by cc.ReadHeader/ReadBody
    inflight,     \* peer: seqs of requests read and not yet answered
    callSeq,      \* Call.Seq of each caller's call
    callError,    \* Call.Error
    callReply,    \* Call.Reply has been filled in by ReadBody
    doneCh,       \* number of items buffered in Call.Done
    fired,        \* number of times call.done() ran for the call
    pc,           \* position of each caller
    kind,         \* "Go" or "Call": which entry point the caller used
    ctx,          \* the caller's context: "none", "live" or "cancelled"
    result,       \* what Call returned / what the Go user read from Done
    rpc,          \* position of the receiver goroutine
    rcall,        \* receive(): call returned by removeCall(h.Seq)
    rhdr,         \* receive(): the header h
    rerr,         \* receive(): err
    rcase,        \* receive(): the case of the switch the last iteration took
    avail,        \* last observation of IsAvailable()
    closeRet,     \* what the last Close() returned
    ccCloses      \* number of times Client.Close called cc.Close()

cvars == <<seq, pending, closing, shutdown, sending, header, codecClosed,
           connBroken, cout, cin, inflight, callSeq, callError,
           callReply, doneCh, fired, pc, kind, ctx, result, rpc, rcall, rhdr,
           rerr, rcase, avail, closeRet, ccCloses>>

\* ------------------------------------------------------------ server model
VARIABLES
    handleTimeout,  \* opt.HandleTimeout of the connection: 0, or 1 for any > 0
    sin,            \* stream client -> server, request items not yet read
    sout,           \* stream server -> client, the items written by cc.Write
    eof,            \* the client has closed its side of the connection
    nreq,           \* number of requests the remote client has written
    ssending,       \* holder of serveCodec's sending mutex
    spc,            \* position of the serveCodec loop
    sreq,           \* serveCodec: header of the request readRequest failed on
    reqM,           \* per dispatched request: its method (req.mtype)
    hErr,           \* per dispatched request: req.h.Error
    hpc,            \* per dispatched request: position of handleRequest
    wpc,            \* per dispatched request: position of its worker goroutine
    sclosed         \* cc.Close() has run at the end of serveCodec

svars == <<handleTimeout, sin, sout, eof, nreq, ssending, spc, sreq, reqM,
           hErr, hpc, wpc, sclosed>>

\* ----------------------------------------------------------- XClient model
MaxServers == 3
Addrs == 1..MaxServers

VARIABLES
    bpc,          \* Broadcast: "idle", "running" (tasks spawned), "returned"
    bservers,     \* Broadcast: the addresses GetAll returned
    replyNil,     \* Broadcast: the caller passed reply == nil
    replyDone,    \* Broadcast: replyDone
    bE,           \* Broadcast: e
    bcancelled,   \* Broadcast: cancel() of the derived context has been called
    parentDone,   \* the context the caller passed is done (deadline, cancel)
    reply,        \* the caller's reply value: 0, or a for server a's result
    replySets,    \* number of times the caller's reply value was written
    order,        \* the tasks in the order they took mu, with their err
    tpc,          \* per address: position of the task goroutine
    terr,         \* per address: err of xc.call
    clone,        \* per address: clonedReply, 0 or a for server a's result
    served,       \* per address: how the call was completed by the receiver
    bret          \* what Broadcast returned

xvars == <<bpc, bservers, replyNil, replyDone, bE, bcancelled, parentDone,
           reply, replySets, order, tpc, terr, clone, served, bret>>

\* --------------------------------------------------------- discovery model
\* SelectMode
RandomSelect == 0
RoundRobinSelect == 1
Modes == {RandomSelect, RoundRobinSelect, 2}

\* largest index NewMultiServerDiscovery starts from, and the number of
\* round-robin picks followed on one list
MaxIndex == 4
MaxGets == 6

VARIABLES
    dservers,     \* MultiServersDiscovery.servers
    dindex,       \* MultiServersDiscovery.index
    dop,          \* the last call on the discovery: its name, "none" at first
    dres,         \* what the last Get returned: an address, 0 for ""
    dall,         \* what the last GetAll returned
    derr,         \* the error the last call returned
    rr            \* the round-robin picks made on the current list, in order

dvars == <<dservers, dindex, dop, dres, dall, derr, rr>>

\* ---------------------------------------------------------- registry model
\* the servers that send heartbeats, the last instant of the clock, and the
\* number of round-robin picks followed on one list got from the registry
MaxRegServers == 2
MaxRegGets == 2
RegAddrs == 1..MaxRegServers
MaxTime == 3

VARIABLES
    now,          \* time.Now()
    rtimeout,     \* GoRegistry.timeout
    rservers,     \* GoRegistry.servers: address -> start of its ServerItem
    lastBeat,     \* per address: time of its most recent heartbeat, if any
    rstatus,      \* the last HTTP request at the registry: method, status,
                  \* and whether no time has passed since
    ralive,       \* X-Gorpc-Servers of the last GET at the registry
    dtimeout,     \* GoRegistryDiscovery.timeout
    lastUpdate,   \* GoRegistryDiscovery.lastUpdate
    dnow,         \* no time has passed and no heartbeat has arrived since
                  \* the last call on the discovery
    dqueried      \* the Refresh of that call asked the registry

gvars == <<now, rtimeout, rservers, lastBeat, rstatus, ralive, dtimeout,
           lastUpdate, dnow, dqueried>>

\* ------------------------------------------- connection and service map
\* the goroutines that call Server.Register
MaxRegistrants == 3
Registrants == 1..MaxRegistrants

VARIABLES
    hopt,         \* ServeConn: the Option it read from the connection
    connClosed,   \* ServeConn: conn.Close() has run
    serviceMap,   \* Server.serviceMap: service name -> the service stored
    regpc,        \* per registrant: "idle", "made" (newService done), "done"
    regName,      \* per registrant: the name of the service of its receiver
    regRet,       \* per registrant: what Register returned
    flast         \* the last serviceMap.Load of findService: name, service

hvars == <<hopt, connClosed, serviceMap, regpc, regName, regRet, flast>>

\* ------------------------------------------------ XClient's client cache
\* the goroutines that call XClient.dial, and the addresses they dial
MaxDialers == 4
Dialers == 1..MaxDialers
DialAddrs == {1, 2}

VARIABLES
    clients,      \* XClient.clients: address -> the Client cached for it
    cstate,       \* per Client ever dialed: "open", "down" (shutdown), "closed"
    cfor,         \* per Client ever dialed: the address it was dialed for
    nconn,        \* number of connections XDial has opened
    xmu,          \* holder of XClient.mu
    dpc,          \* per dialer: "idle", "check", "dial", "done"
    daddr,        \* per dialer: rpcAddr
    dcl,          \* per dialer: the local variable client, 0 for nil
    dret          \* per dialer: the Client dial returned, 0 with an error

kvars == <<clients, cstate, cfor, nconn, xmu, dpc, daddr, dcl, dret>>

\* ---------------------------------------------- the locks of one Client
\* user goroutines, each sending one call with Go on a done channel they share
LUsers == {1, 2}
LRecv == Cardinality(LUsers) + 1

VARIABLES
    lsending,     \* holder of client.sending
    lmu,          \* holder of client.mu
    lpc,          \* position of each user goroutine and of the receiver
    lpend,        \* client.pending: the users whose call is registered
    lclosing,     \* client.closing
    lshutdown,    \* client.shutdown
    ldone,        \* number of calls buffered in the shared done channel
    lterm,        \* terminateCalls: the calls its range loop has yet to visit
    lwritten      \* the users whose request went out on the connection

lvars == <<lsending, lmu, lpc, lpend, lclosing, lshutdown, ldone, lterm,
           lwritten>>

vars == <<cvars, svars, xvars, dvars, gvars, hvars, kvars, lvars>>

\* what the steps of the client, of the server, of the XClient, of the
\* discovery and of the service map leave alone
nonClient == <<svars, xvars, dvars, gvars, hvars, kvars, lvars>>
nonServer == <<cvars, xvars, dvars, gvars, hvars, kvars, lvars>>
nonXClient == <<cvars, svars, dvars, gvars, hvars, kvars, lvars>>
nonDiscovery == <<cvars, svars, xvars, hvars, kvars, lvars>>
nonServices == <<cvars, svars, xvars, dvars, gvars, kvars, lvars>>
nonConn == <<cvars, xvars, dvars, gvars, kvars, lvars>>
nonCache == <<cvars, svars, xvars, dvars, gvars, hvars, lvars>>
nonLocks == <<cvars, svars, xvars, dvars, gvars, hvars, kvars>>

\* stream items: a frame is a header item followed by a body item
Hdr(s, e) == [t |-> "H", seq |-> s, err |-> e]
Body(s) == [t |-> "B", seq |-> s, err |-> ""]

\* capacity of Call.Done: Client.Call makes it with 1 slot, Client.Go with 10
\* when the user passes none
CallDoneCap == 1
GoDoneCap == 10
DoneCap(c) == IF kind[c] = "Go" THEN GoDoneCap ELSE CallDoneCap

\* seq of a fresh Client
InitSeq == 1

InitClient ==
    /\ seq = InitSeq
    /\ pending = << >>
    /\ closing = FALSE
    /\ shutdown = FALSE
    /\ sending = NoHolder
    /\ header = [ServiceMethod |-> 0, Seq |-> 0, Error |-> ""]
    /\ codecClosed = FALSE
    /\ connBroken = FALSE
    /\ cout = << >>
    /\ cin = << >>
    /\ inflight = {}
    /\ callSeq = [c \in Callers |-> 0]
    /\ callError = [c \in Callers |-> NoErr]
    /\ callReply = [c \in Callers |-> FALSE]
    /\ doneCh = [c \in Callers |-> 0]
    /\ fired = [c \in Callers |-> 0]
    /\ pc = [c \in Callers |-> "idle"]
    /\ kind = [c \in Callers |-> "none"]
    /\ ctx = [c \in Callers |-> "none"]
    /\ result = [c \in Callers |-> "none"]
    /\ rpc = "hdr"
    /\ rcall = NoCall
    /\ rhdr = Hdr(0, "")
    /\ rerr = NoErr
    /\ rcase = "none"
    /\ avail = TRUE
    /\ closeRet = "none"
    /\ ccCloses = 0

\* sending.Lock(), were the mutex not to exclude anyone
MayLockAlways(holder) == TRUE

\* sending.Lock() returns only when nobody holds the mutex
MayLock(holder) == holder = NoHolder

\* pending without the entry of seq s (delete(client.pending, seq))
Without(p, s) == [k \in DOMAIN p \ {s} |-> p[k]]

\* pending with the entry s -> c added (client.pending[call.Seq] = call)
With(p, s, c) == [k \in DOMAIN p \cup {s} |-> IF k = s THEN c ELSE p[k]]

\* removeCall: the call found under seq, NoCall when there is none
Lookup(p, s) == IF s \in DOMAIN p THEN p[s] ELSE NoCall

\* registerCall's guard, were it to forget one of the two flags
RefusesShutdownOnly == shutdown
RefusesClosingOnly == closing

\* registerCall's guard
Refuses == closing \/ shutdown

\* IsAvailable
IsAvailable == ~shutdown /\ ~closing

\* call.Error = e and call.done() on the calls of the set cs
DoneAll(cs, e) ==
    /\ \A c \in cs : doneCh[c] < DoneCap(c)
    /\ doneCh' = [c \in Callers |-> IF c \in cs THEN doneCh[c] + 1 ELSE doneCh[c]]
    /\ fired' = [c \in Callers |-> IF c \in cs THEN fired[c] + 1 ELSE fired[c]]
    /\ callError' = [c \in Callers |-> IF c \in cs THEN e ELSE callError[c]]

\* registerCall, were it to leave seq as it is
NextSeqStuck(s) == s

\* registerCall: seq++
NextSeq(s) == s + 1

\* the ways a caller enters: Client.Go directly ("none": it takes no context),
\* or Client.Call with a context that is not cancelled yet; a context that is
\* never cancelled is one whose Cancel step never happens
Entries == {<<"Go", "none">>, <<"Call", "live">>}

\* Go / Call up to and including registerCall and the header scratch of send
Go(c, k, x) ==
    /\ pc[c] = "idle"
    /\ \A d \in Callers : d < c => pc[d] # "idle"
    /\ MayLock(sending)
    /\ kind' = [kind EXCEPT ![c] = k]
    /\ ctx' = [ctx EXCEPT ![c] = x]
    /\ IF Refuses
       THEN /\ DoneAll({c}, ErrShutdown)
            /\ pc' = [pc EXCEPT ![c] = "sent"]
            /\ UNCHANGED <<seq, pending, callSeq, header, sending>>
       ELSE /\ callSeq' = [callSeq EXCEPT ![c] = seq]
            /\ pending' = With(pending, seq, c)
            /\ seq' = NextSeq(seq)
            /\ header' = [ServiceMethod |-> c, Seq |-> seq, Error |-> ""]
            /\ sending' = c
            /\ pc' = [pc EXCEPT ![c] = "hdr"]
            /\ UNCHANGED <<doneCh, fired, callError>>
    /\ UNCHANGED <<closing, shutdown, codecClosed, connBroken, cout, cin,
                   inflight, callReply, result, rpc, rcall, rhdr, rerr,
                   avail, closeRet>>
    /\ UNCHANGED rcase
    /\ UNCHANGED ccCloses
    /\ UNCHANGED nonClient

\* the transport, were cc.Close() not to end the reads on it
ConnUpThoughClosed == ~connBroken

\* the transport can carry bytes
ConnUp == ~connBroken /\ ~codecClosed

\* reads and writes on the codec can fail
ConnDown == ~ConnUp

\* cc.Write, first half: the header goes on the wire
WriteHeader(c) ==
    /\ pc[c] = "hdr"
    /\ sending = c
    /\ ConnUp
    /\ cout' = Append(cout, Hdr(header.Seq, header.Error))
    /\ pc' = [pc EXCEPT ![c] = "body"]
    /\ UNCHANGED <<seq, pending, closing, shutdown, sending, header,
                   codecClosed, connBroken, cin, inflight, callSeq,
                   callError, callReply, doneCh, fired, kind, ctx, result, rpc,
                   rcall, rhdr, rerr, avail, closeRet>>
    /\ UNCHANGED rcase
    /\ UNCHANGED ccCloses
    /\ UNCHANGED nonClient

\* cc.Write, second half: the body goes on the wire
WriteBody(c) ==
    /\ pc[c] = "body"
    /\ sending = c
    /\ ConnUp
    /\ cout' = Append(cout, Body(header.Seq))
    /\ pc' = [pc EXCEPT ![c] = "flush"]
    /\ UNCHANGED <<seq, pending, closing, shutdown, sending, header,
                   codecClosed, connBroken, cin, inflight, callSeq,
                   callError, callReply, doneCh, fired, kind, ctx, result, rpc,
                   rcall, rhdr, rerr, avail, closeRet>>
    /\ UNCHANGED rcase
    /\ UNCHANGED ccCloses
    /\ UNCHANGED nonClient

\* cc.Write returns nil, send unlocks, Go returns the call
WriteOk(c) ==
    /\ pc[c] = "flush"
    /\ sending = c
    /\ sending' = NoHolder
    /\ pc' = [pc EXCEPT ![c] = "sent"]
    /\ UNCHANGED <<seq, pending, closing, shutdown, header, codecClosed,
                   connBroken, cout, cin, inflight, callSeq, callError,
                   callReply, doneCh, fired, kind, ctx, result, rpc, rcall,
                   rhdr, rerr, avail, closeRet>>
    /\ UNCHANGED rcase
    /\ UNCHANGED ccCloses
    /\ UNCHANGED nonClient

\* cc.Write returns an error (at any stage of the write): removeCall, and
\* done() when the call was still pending
WriteErr(c) ==
    /\ pc[c] \in {"hdr", "body", "flush"}
    /\ sending = c
    /\ LET call == Lookup(pending, callSeq[c]) IN
       /\ pending' = Without(pending, callSeq[c])
       /\ DoneAll({call} \ {NoCall}, ErrWrite)
    /\ sending' = NoHolder
    /\ pc' = [pc EXCEPT ![c] = "sent"]
    /\ UNCHANGED <<seq, closing, shutdown, header, codecClosed, connBroken,
                   cout, cin, inflight, callSeq, callReply, kind, ctx,
                   result, rpc, rcall, rhdr, rerr, avail, closeRet>>
    /\ UNCHANGED rcase
    /\ UNCHANGED ccCloses
    /\ UNCHANGED nonClient

\* Client.Call line 176: call := <-client.Go(...).Done
CallRecvDone(c) ==
    /\ pc[c] = "sent"
    /\ kind[c] = "Call"
    /\ doneCh[c] > 0
    /\ doneCh' = [doneCh EXCEPT ![c] = @ - 1]
    /\ pc' = [pc EXCEPT ![c] = "select"]
    /\ UNCHANGED <<seq, pending, closing, shutdown, sending, header,
                   codecClosed, connBroken, cout, cin, inflight, callSeq,
                   callError, callReply, fired, kind, ctx, result, rpc, rcall,
                   rhdr, rerr, avail, closeRet>>
    /\ UNCHANGED rcase
    /\ UNCHANGED ccCloses
    /\ UNCHANGED nonClient

\* the cases of the select of Client.Call that are ready
Ready(c) ==
    {b \in {"ctx", "done"} :
        IF b = "ctx" THEN ctx[c] = "cancelled" ELSE doneCh[c] > 0}

\* Client.Call lines 178-185: the select on ctx.Done() and call.Done
CallSelect(c) ==
    /\ pc[c] = "select"
    /\ \E b \in Ready(c) :
        IF b = "ctx"
        THEN /\ pending' = Without(pending, callSeq[c])
             /\ result' = [result EXCEPT ![c] = ErrCtx]
             /\ UNCHANGED doneCh
        ELSE /\ doneCh' = [doneCh EXCEPT ![c] = @ - 1]
             /\ result' = [result EXCEPT ![c] = callError[c]]
             /\ UNCHANGED pending
    /\ pc' = [pc EXCEPT ![c] = "returned"]
    /\ UNCHANGED <<seq, closing, shutdown, sending, header, codecClosed,
                   connBroken, cout, cin, inflight, callSeq, callError,
                   callReply, fired, kind, ctx, rpc, rcall, rhdr, rerr, avail,
                   closeRet>>
    /\ UNCHANGED rcase
    /\ UNCHANGED ccCloses
    /\ UNCHANGED nonClient

\* the user of Client.Go receives the call from call.Done
GoRecvDone(c) ==
    /\ pc[c] = "sent"
    /\ kind[c] = "Go"
    /\ doneCh[c] > 0
    /\ doneCh' = [doneCh EXCEPT ![c] = @ - 1]
    /\ result' = [result EXCEPT ![c] = callError[c]]
    /\ pc' = [pc EXCEPT ![c] = "returned"]
    /\ UNCHANGED <<seq, pending, closing, shutdown, sending, header,
                   codecClosed, connBroken, cout, cin, inflight, callSeq,
                   callError, callReply, fired, kind, ctx, rpc, rcall, rhdr,
                   rerr, avail, closeRet>>
    /\ UNCHANGED rcase
    /\ UNCHANGED ccCloses
    /\ UNCHANGED nonClient

\* the context of a running Call is cancelled or its deadline passes
Cancel(c) ==
    /\ ctx[c] = "live"
    /\ pc[c] \notin {"idle", "returned"}
    /\ ctx' = [ctx EXCEPT ![c] = "cancelled"]
    /\ UNCHANGED <<seq, pending, closing, shutdown, sending, header,
                   codecClosed, connBroken, cout, cin, inflight, callSeq,
                   callError, callReply, doneCh, fired, pc, kind, result, rpc,
                   rcall, rhdr, rerr, avail, closeRet>>
    /\ UNCHANGED rcase
    /\ UNCHANGED ccCloses
    /\ UNCHANGED nonClient

\* receive(): cc.ReadHeader succeeds, then removeCall(h.Seq)
RecvHeader ==
    /\ rpc = "hdr"
    /\ cin # << >>
    /\ cin' = Tail(cin)
    /\ IF Head(cin).t = "H"
       THEN /\ rhdr' = Head(cin)
            /\ rcall' = Lookup(pending, Head(cin).seq)
            /\ pending' = Without(pending, Head(cin).seq)
            /\ rpc' = "body"
            /\ UNCHANGED rerr
       ELSE /\ rerr' = ErrRead
            /\ rpc' = "term"
            /\ UNCHANGED <<rhdr, rcall, pending>>
    /\ UNCHANGED <<seq, closing, shutdown, sending, header, codecClosed,
                   connBroken, cout, inflight, callSeq, callError,
                   callReply, doneCh, fired, pc, kind, ctx, result, avail,
                   closeRet>>
    /\ UNCHANGED rcase
    /\ UNCHANGED ccCloses
    /\ UNCHANGED nonClient

\* receive(): cc.ReadHeader fails
RecvHeaderErr ==
    /\ rpc = "hdr"
    /\ ConnDown
    /\ rerr' = ErrRead
    /\ rpc' = "term"
    /\ UNCHANGED <<seq, pending, closing, shutdown, sending, header,
                   codecClosed, connBroken, cout, cin, inflight, callSeq,
                   callError, callReply, doneCh, fired, pc, kind, ctx, result,
                   rcall, rhdr, avail, closeRet>>
    /\ UNCHANGED rcase
    /\ UNCHANGED ccCloses
    /\ UNCHANGED nonClient

\* the outcomes cc.ReadBody can have: TRUE a body was read, FALSE an error
\* receive(), were it not to read the body of a response nobody waits for
AfterBodyNoDrain(st, call, ok) == IF ok /\ call # NoCall THEN Tail(st) ELSE st

\* the stream cc.ReadBody leaves: every case of the switch reads one body item,
\* a failed read consumes nothing
AfterBody(st, call, ok) == IF ok THEN Tail(st) ELSE st

BodyOutcomes ==
    {ok \in BOOLEAN : IF ok THEN cin # << >> ELSE ConnDown}

\* the Error strings a response header may carry: one without a formatting
\* verb, and one with a verb (the server puts the requested service name, which
\* the remote client chose, into its error text)
ServerErrors == {ErrServer, ErrVerb}

\* fmt.Errorf(format) without operands: text is copied, a verb becomes
\* %!verb(MISSING)
Errorf(format) == IF format = ErrVerb THEN ErrVerbMissing ELSE format

\* receive(): the switch on call and h.Error, with cc.ReadBody and call.done()
RecvBody(ok) ==
    /\ rpc = "body"
    /\ ok \in BodyOutcomes
    /\ cin' = AfterBody(cin, rcall, ok)
    /\ rerr' = IF ok THEN NoErr ELSE ErrRead
    /\ rpc' = IF ok THEN "hdr" ELSE "term"
    /\ IF rcall = NoCall
       THEN UNCHANGED <<doneCh, fired, callError, callReply>>
       ELSE IF rhdr.err # ""
            THEN /\ DoneAll({rcall}, Errorf(rhdr.err))
                 /\ UNCHANGED callReply
            ELSE /\ DoneAll({rcall},
                       IF ok THEN callError[rcall] ELSE ErrReadBody)
                 /\ callReply' = [callReply EXCEPT ![rcall] = ok]
    /\ rcall' = NoCall
    /\ rhdr' = Hdr(0, "")
    /\ UNCHANGED <<seq, pending, closing, shutdown, sending, header,
                   codecClosed, connBroken, cout, inflight, callSeq, pc,
                   kind, ctx, result, avail, closeRet>>
    /\ rcase' = IF rcall = NoCall THEN "drop"
                ELSE IF rhdr.err # "" THEN "error" ELSE "reply"
    /\ UNCHANGED ccCloses
    /\ UNCHANGED nonClient

\* terminateCalls, were it to take client.mu only
TerminateNoSendingLock == TRUE

\* terminateCalls takes client.sending before client.mu
TerminateMayLock == sending = NoHolder

\* the calls terminateCalls ranges over
Pending == {pending[s] : s \in DOMAIN pending}

\* receive(): terminateCalls(err) after the loop
TerminateCalls ==
    /\ rpc = "term"
    /\ TerminateMayLock
    /\ shutdown' = TRUE
    /\ DoneAll(Pending, rerr)
    /\ rpc' = "exit"
    /\ UNCHANGED <<seq, pending, closing, sending, header, codecClosed,
                   connBroken, cout, cin, inflight, callSeq, callReply,
                   pc, kind, ctx, result, rcall, rhdr, rerr, avail, closeRet>>
    /\ UNCHANGED rcase
    /\ UNCHANGED ccCloses
    /\ UNCHANGED nonClient

\* Client.Close goes on to cc.Close() only when closing is not set yet
ClosesCodecAlways == TRUE
ClosesCodec == ~closing

\* Client.Close
Close ==
    /\ closeRet' = IF closing THEN ErrShutdown ELSE NoErr
    /\ IF ClosesCodec
          THEN /\ closing' = TRUE
               /\ codecClosed' = TRUE
               /\ ccCloses' = ccCloses + 1
          ELSE UNCHANGED <<closing, codecClosed, ccCloses>>
    /\ closeRet' # closeRet
    /\ UNCHANGED <<seq, pending, shutdown, sending, header, connBroken, cout,
                   cin, inflight, callSeq, callError, callReply, doneCh,
                   fired, pc, kind, ctx, result, rpc, rcall, rhdr, rerr, avail>>
    /\ UNCHANGED rcase
    /\ UNCHANGED nonClient

\* a user calls Client.IsAvailable
Probe ==
    /\ avail' = IsAvailable
    /\ avail' # avail
    /\ UNCHANGED <<seq, pending, closing, shutdown, sending, header,
                   codecClosed, connBroken, cout, cin, inflight, callSeq,
                   callError, callReply, doneCh, fired, pc, kind, ctx, result,
                   rpc, rcall, rhdr, rerr, closeRet>>
    /\ UNCHANGED rcase
    /\ UNCHANGED ccCloses
    /\ UNCHANGED nonClient

\* ------------------------------------------------- transport and remote peer
\* the transport fails
ConnFail ==
    /\ ~connBroken
    /\ connBroken' = TRUE
    /\ UNCHANGED <<seq, pending, closing, shutdown, sending, header,
                   codecClosed, cout, cin, inflight, callSeq, callError,
                   callReply, doneCh, fired, pc, kind, ctx, result, rpc, rcall,
                   rhdr, rerr, avail, closeRet>>
    /\ UNCHANGED rcase
    /\ UNCHANGED ccCloses
    /\ UNCHANGED nonClient

\* the stream starts with a whole frame: a header, then its body
FrameAtHead(st) ==
    /\ Len(st) >= 2
    /\ st[1].t = "H"
    /\ st[2].t = "B"

\* the peer reads one request frame
PeerRead ==
    /\ FrameAtHead(cout)
    /\ inflight' = inflight \cup {cout[1].seq}
    /\ cout' = Tail(Tail(cout))
    /\ UNCHANGED <<seq, pending, closing, shutdown, sending, header,
                   codecClosed, connBroken, cin, callSeq, callError,
                   callReply, doneCh, fired, pc, kind, ctx, result, rpc, rcall,
                   rhdr, rerr, avail, closeRet>>
    /\ UNCHANGED rcase
    /\ UNCHANGED ccCloses
    /\ UNCHANGED nonClient

\* the peer finds a broken frame (a header left without body by a failed
\* write, followed by the next request) and drops the connection
PeerAbort ==
    /\ Len(cout) >= 2
    /\ ~FrameAtHead(cout)
    /\ ~connBroken
    /\ connBroken' = TRUE
    /\ cout' = << >>
    /\ UNCHANGED <<seq, pending, closing, shutdown, sending, header,
                   codecClosed, cin, inflight, callSeq, callError,
                   callReply, doneCh, fired, pc, kind, ctx, result, rpc, rcall,
                   rhdr, rerr, avail, closeRet>>
    /\ UNCHANGED rcase
    /\ UNCHANGED ccCloses
    /\ UNCHANGED nonClient

\* the peer's worker answers request s, with error string e in the header
PeerRespond(s, e) ==
    /\ s \in inflight
    /\ ~connBroken
    /\ cin' = cin \o <<Hdr(s, e), Body(s)>>
    /\ inflight' = inflight \ {s}
    /\ UNCHANGED <<seq, pending, closing, shutdown, sending, header,
                   codecClosed, connBroken, cout, callSeq, callError,
                   callReply, doneCh, fired, pc, kind, ctx, result, rpc, rcall,
                   rhdr, rerr, avail, closeRet>>
    /\ UNCHANGED rcase
    /\ UNCHANGED ccCloses
    /\ UNCHANGED nonClient

\* --------------------------------------------------------------- the server
MaxReqs == 2
Seqs == 1..MaxReqs

\* holders of the sending mutex: the serveCodec loop, the worker of request s
\* (s), the supervisor of request s (-s), or nobody
Loop == MaxReqs + 1
Worker(s) == s
Super(s) == 0 - s

\* methods a request can name: one that succeeds, one that returns an error,
\* one that is not registered; a body decoded as a header names none
Methods == {"Foo.Sum", "Foo.Fail", "Foo.Nope"}
ErrFind == "rpc server: can't find method"
ErrMethod == "method failed"
ErrTimeout == "rpc server: request handle timeout"

\* findService succeeds
Found(m) == m \in {"Foo.Sum", "Foo.Fail"}

\* svc.call's error
CallErr(m) == IF m = "Foo.Fail" THEN ErrMethod ELSE ""

\* a request header item
ReqHdr(s, m) == [t |-> "H", seq |-> s, err |-> "", m |-> m]

\* what a codec makes of a request body read as a header
Garbage == [t |-> "H", seq |-> 0, err |-> "", m |-> ""]

InitServer(timeouts) ==
    /\ handleTimeout \in timeouts
    /\ sin = << >>
    /\ sout = << >>
    /\ eof = FALSE
    /\ nreq = 0
    /\ ssending = NoHolder
    /\ spc = "read"
    /\ sreq = Garbage
    /\ reqM = [s \in Seqs |-> ""]
    /\ hErr = [s \in Seqs |-> ""]
    /\ hpc = [s \in Seqs |-> "none"]
    /\ wpc = [s \in Seqs |-> "none"]
    /\ sclosed = FALSE

\* the remote client writes one request frame
ClientSend(m) ==
    /\ ~eof
    /\ nreq < MaxReqs
    /\ nreq' = nreq + 1
    /\ sin' = sin \o <<ReqHdr(nreq + 1, m), Body(nreq + 1)>>
    /\ UNCHANGED <<handleTimeout, sout, eof, ssending, spc, sreq, reqM, hErr,
                   hpc, wpc, sclosed>>
    /\ UNCHANGED nonServer

\* the remote client closes the connection
ClientEOF ==
    /\ ~eof
    /\ eof' = TRUE
    /\ UNCHANGED <<handleTimeout, sin, sout, nreq, ssending, spc, sreq, reqM,
                   hErr, hpc, wpc, sclosed>>
    /\ UNCHANGED nonServer

\* readRequestHeader on the next item: a header item is the header; a body
\* item, which the codec is asked to decode as a header, is an error or a
\* header of zero values, depending on the codec
HeaderReads(item) ==
    IF item.t = "H" THEN {item} ELSE {Garbage, [t |-> "E"]}

\* the part of the stream readRequest leaves: on a failed lookup it returns
\* before cc.ReadBody
AfterRequest(st, h) ==
    IF Found(h.m) THEN Tail(Tail(st)) ELSE Tail(st)

\* serveCodec: one readRequest, and the dispatch or the error reply it leads to
ReadRequest ==
    /\ spc = "read"
    /\ sin # << >>
    /\ \E h \in HeaderReads(Head(sin)) :
        IF h.t = "E"
        THEN /\ spc' = "wait"
             /\ sin' = Tail(sin)
             /\ UNCHANGED <<sreq, reqM, hErr, hpc, wpc>>
        ELSE /\ sin' = AfterRequest(sin, h)
             /\ IF Found(h.m)
                THEN /\ reqM' = [reqM EXCEPT ![h.seq] = h.m]
                     /\ hErr' = [hErr EXCEPT ![h.seq] = ""]
                     /\ hpc' = [hpc EXCEPT ![h.seq] = "start"]
                     /\ UNCHANGED <<spc, sreq, wpc>>
                ELSE /\ sreq' = [h EXCEPT !.err = ErrFind]
                     /\ spc' = "reply"
                     /\ UNCHANGED <<reqM, hErr, hpc, wpc>>
    /\ UNCHANGED <<handleTimeout, sout, eof, nreq, ssending, sclosed>>
    /\ UNCHANGED nonServer

\* serveCodec: readRequest fails on the header at the end of the stream
ReadEOF ==
    /\ spc = "read"
    /\ sin = << >>
    /\ eof
    /\ spc' = "wait"
    /\ UNCHANGED <<handleTimeout, sin, sout, eof, nreq, ssending, sreq, reqM,
                   hErr, hpc, wpc, sclosed>>
    /\ UNCHANGED nonServer

\* sendResponse: sending.Lock() and the header half of cc.Write
SendHeader(who, s, e) ==
    /\ MayLock(ssending)
    /\ ssending' = who
    /\ sout' = Append(sout, Hdr(s, e))

\* sendResponse: the body half of cc.Write and sending.Unlock()
SendBody(who, s) ==
    /\ ssending = who
    /\ ssending' = NoHolder
    /\ sout' = Append(sout, Body(s))

\* serveCodec: the error reply to a request readRequest failed on
LoopReplyHeader ==
    /\ spc = "reply"
    /\ SendHeader(Loop, sreq.seq, sreq.err)
    /\ spc' = "replying"
    /\ UNCHANGED <<handleTimeout, sin, eof, nreq, sreq, reqM, hErr, hpc, wpc,
                   sclosed>>
    /\ UNCHANGED nonServer

LoopReplyBody ==
    /\ spc = "replying"
    /\ SendBody(Loop, sreq.seq)
    /\ spc' = "read"
    /\ UNCHANGED <<handleTimeout, sin, eof, nreq, sreq, reqM, hErr, hpc, wpc,
                   sclosed>>
    /\ UNCHANGED nonServer

\* handleRequest starts the worker goroutine and waits: for called when
\* timeout == 0, in the select otherwise
HandleStart(s) ==
    /\ hpc[s] = "start"
    /\ hpc' = [hpc EXCEPT ![s] = IF handleTimeout = 0 THEN "called" ELSE "select"]
    /\ wpc' = [wpc EXCEPT ![s] = "call"]
    /\ UNCHANGED <<handleTimeout, sin, sout, eof, nreq, ssending, spc, sreq,
                   reqM, hErr, sclosed>>
    /\ UNCHANGED nonServer

\* worker: req.svc.call returns
WorkerCall(s) ==
    /\ wpc[s] = "call"
    /\ wpc' = [wpc EXCEPT ![s] = "called"]
    /\ UNCHANGED <<handleTimeout, sin, sout, eof, nreq, ssending, spc, sreq,
                   reqM, hErr, hpc, sclosed>>
    /\ UNCHANGED nonServer

\* handleRequest, were it to return after its timeout reply
RecvCalledNoDrain == {"called", "select"}

\* positions where handleRequest receives from called
RecvCalledAt == {"called", "select", "drain"}

\* the unbuffered channel called: the worker sends, handleRequest receives
Called(s) ==
    /\ wpc[s] = "called"
    /\ hpc[s] \in RecvCalledAt
    /\ wpc' = [wpc EXCEPT ![s] = "respond"]
    /\ hpc' = [hpc EXCEPT ![s] = "sent"]
    /\ UNCHANGED <<handleTimeout, sin, sout, eof, nreq, ssending, spc, sreq,
                   reqM, hErr, sclosed>>
    /\ UNCHANGED nonServer

\* req.h.Error as the worker leaves it: set only when the method failed
WorkerErr(s) == IF CallErr(reqM[s]) # "" THEN CallErr(reqM[s]) ELSE hErr[s]

\* worker: its sendResponse, header half
WorkerSendHeader(s) ==
    /\ wpc[s] = "respond"
    /\ hErr' = [hErr EXCEPT ![s] = WorkerErr(s)]
    /\ SendHeader(Worker(s), s, WorkerErr(s))
    /\ wpc' = [wpc EXCEPT ![s] = "responding"]
    /\ UNCHANGED <<handleTimeout, sin, eof, nreq, spc, sreq, reqM, hpc, sclosed>>
    /\ UNCHANGED nonServer

\* worker: its sendResponse, body half
WorkerSendBody(s) ==
    /\ wpc[s] = "responding"
    /\ SendBody(Worker(s), s)
    /\ wpc' = [wpc EXCEPT ![s] = "sent"]
    /\ UNCHANGED <<handleTimeout, sin, eof, nreq, spc, sreq, reqM, hErr, hpc,
                   sclosed>>
    /\ UNCHANGED nonServer

\* the unbuffered channel sent: the worker sends, handleRequest receives and
\* returns (wg.Done)
Sent(s) ==
    /\ wpc[s] = "sent"
    /\ hpc[s] = "sent"
    /\ wpc' = [wpc EXCEPT ![s] = "done"]
    /\ hpc' = [hpc EXCEPT ![s] = "done"]
    /\ UNCHANGED <<handleTimeout, sin, sout, eof, nreq, ssending, spc, sreq,
                   reqM, hErr, sclosed>>
    /\ UNCHANGED nonServer

\* handleRequest: time.After(timeout) fires in the select; the timeout reply,
\* header half
TimeoutSendHeader(s) ==
    /\ hpc[s] = "select"
    /\ hErr' = [hErr EXCEPT ![s] = ErrTimeout]
    /\ SendHeader(Super(s), s, ErrTimeout)
    /\ hpc' = [hpc EXCEPT ![s] = "timingout"]
    /\ UNCHANGED <<handleTimeout, sin, eof, nreq, spc, sreq, reqM, wpc, sclosed>>
    /\ UNCHANGED nonServer

\* handleRequest: the timeout reply, body half; then it drains called and sent
TimeoutSendBody(s) ==
    /\ hpc[s] = "timingout"
    /\ SendBody(Super(s), s)
    /\ hpc' = [hpc EXCEPT ![s] = "drain"]
    /\ UNCHANGED <<handleTimeout, sin, eof, nreq, spc, sreq, reqM, hErr, wpc,
                   sclosed>>
    /\ UNCHANGED nonServer

\* serveCodec after the loop, were it not to wait for the handlers
WaitSkipped == TRUE

\* serveCodec after the loop: wg.Wait() returns, cc.Close()
WaitMayReturn == \A s \in Seqs : hpc[s] \in {"none", "done"}

ServeClose ==
    /\ spc = "wait"
    /\ WaitMayReturn
    /\ spc' = "closed"
    /\ sclosed' = TRUE
    /\ UNCHANGED <<handleTimeout, sin, sout, eof, nreq, ssending, sreq, reqM,
                   hErr, hpc, wpc>>
    /\ UNCHANGED nonServer

\* -------------------------------------------------------- XClient.Broadcast
\* errors of the per-address call besides those of Client.Call
ErrDial == "dial error"
ErrGetAll == "discovery error"

InitXClient ==
    /\ bpc = "idle"
    /\ bservers = {}
    /\ replyNil = FALSE
    /\ replyDone = FALSE
    /\ bE = NoErr
    /\ bcancelled = FALSE
    /\ parentDone = FALSE
    /\ reply = 0
    /\ replySets = 0
    /\ order = << >>
    /\ tpc = [a \in Addrs |-> "none"]
    /\ terr = [a \in Addrs |-> NoErr]
    /\ clone = [a \in Addrs |-> 0]
    /\ served = [a \in Addrs |-> "none"]
    /\ bret = "none"

\* Done() of the context Broadcast derives with context.WithCancel
CtxDone == bcancelled \/ parentDone

\* the value xc.call gets as reply: the clone, never the caller's value
ReplyArgCaller == "caller"
ReplyArg == "clone"

\* Broadcast: "if err != nil && e == nil"
SetsErrorAlways(err) == err # NoErr
SetsErrorNever(err) == FALSE
SetsError(err) == err # NoErr /\ bE = NoErr

\* Broadcast: "if err == nil && !replyDone"
CopiesReplyAlways(err) == err = NoErr
CopiesReply(err) == err = NoErr /\ ~replyDone

\* Broadcast up to the end of its loop: GetAll gave S, one task per address
BroadcastStart(S, rn) ==
    /\ bpc = "idle"
    /\ bpc' = "running"
    /\ bservers' = S
    /\ replyNil' = rn
    /\ replyDone' = rn
    /\ tpc' = [a \in Addrs |-> IF a \in S THEN "dial" ELSE "none"]
    /\ UNCHANGED <<bE, bcancelled, parentDone, reply, replySets, order, terr,
                   clone, served, bret>>
    /\ UNCHANGED nonXClient

\* Broadcast when GetAll fails
BroadcastGetAllErr ==
    /\ bpc = "idle"
    /\ bpc' = "returned"
    /\ bret' = ErrGetAll
    /\ UNCHANGED <<bservers, replyNil, replyDone, bE, bcancelled, parentDone,
                   reply, replySets, order, tpc, terr, clone, served>>
    /\ UNCHANGED nonXClient

\* the task's xc.call: xc.dial, then Client.Call has sent the request
TaskDial(a, ok) ==
    /\ tpc[a] = "dial"
    /\ IF ok
          THEN tpc' = [tpc EXCEPT ![a] = "await"] /\ UNCHANGED terr
          ELSE /\ tpc' = [tpc EXCEPT ![a] = "lock"]
               /\ terr' = [terr EXCEPT ![a] = ErrDial]
    /\ UNCHANGED <<bpc, bservers, replyNil, replyDone, bE, bcancelled,
                   parentDone, reply, replySets, order, clone, served, bret>>
    /\ UNCHANGED nonXClient

\* the receiver of the client for address a completes the call: with the
\* response decoded into the reply xc.call was given, or with an error
Complete(a, r) ==
    /\ tpc[a] = "await"
    /\ served[a] = "none"
    /\ served' = [served EXCEPT ![a] = r]
    /\ IF r = "ok" /\ ~replyNil
          THEN IF ReplyArg = "clone"
                 THEN /\ clone' = [clone EXCEPT ![a] = a]
                      /\ UNCHANGED <<reply, replySets>>
                 ELSE /\ reply' = a
                      /\ replySets' = replySets + 1
                      /\ UNCHANGED clone
          ELSE UNCHANGED <<clone, reply, replySets>>
    /\ UNCHANGED <<bpc, bservers, replyNil, replyDone, bE, bcancelled,
                   parentDone, order, tpc, terr, bret>>
    /\ UNCHANGED nonXClient

\* Client.Call: "call := <-client.Go(...).Done", which does not look at ctx
TaskAwait(a) ==
    /\ tpc[a] = "await"
    /\ served[a] # "none"
    /\ tpc' = [tpc EXCEPT ![a] = "select"]
    /\ UNCHANGED <<bpc, bservers, replyNil, replyDone, bE, bcancelled,
                   parentDone, reply, replySets, order, terr, clone, served,
                   bret>>
    /\ UNCHANGED nonXClient

\* Client.Call: the select's "case <-ctx.Done()"
TaskSelectCtx(a) ==
    /\ tpc[a] = "select"
    /\ CtxDone
    /\ tpc' = [tpc EXCEPT ![a] = "lock"]
    /\ terr' = [terr EXCEPT ![a] = ErrCtx]
    /\ UNCHANGED <<bpc, bservers, replyNil, replyDone, bE, bcancelled,
                   parentDone, reply, replySets, order, clone, served, bret>>
    /\ UNCHANGED nonXClient

\* Client.Call returns the Error of the completed call.  Broadcast is
\* checked against every result Client.Call is written to give, nil included
TaskSelectDone(a) ==
    /\ tpc[a] = "select"
    /\ tpc' = [tpc EXCEPT ![a] = "lock"]
    /\ terr' = [terr EXCEPT ![a] =
                    IF served[a] = "ok" THEN NoErr ELSE ErrServer]
    /\ UNCHANGED <<bpc, bservers, replyNil, replyDone, bE, bcancelled,
                   parentDone, reply, replySets, order, clone, served, bret>>
    /\ UNCHANGED nonXClient

\* the task's section under mu: record the error and cancel, copy the reply
TaskRecord(a) ==
    /\ tpc[a] = "lock"
    /\ tpc' = [tpc EXCEPT ![a] = "done"]
    /\ order' = Append(order, [a |-> a, err |-> terr[a]])
    /\ IF SetsError(terr[a])
          THEN bE' = terr[a] /\ bcancelled' = TRUE
          ELSE UNCHANGED <<bE, bcancelled>>
    /\ IF CopiesReply(terr[a])
          THEN /\ reply' = clone[a]
               /\ replySets' = replySets + 1
               /\ replyDone' = TRUE
          ELSE UNCHANGED <<reply, replySets, replyDone>>
    /\ UNCHANGED <<bpc, bservers, replyNil, parentDone, terr, clone, served,
                   bret>>
    /\ UNCHANGED nonXClient

\* Broadcast: wg.Wait() returns, return e
BroadcastReturn ==
    /\ bpc = "running"
    /\ \A a \in bservers : tpc[a] = "done"
    /\ bpc' = "returned"
    /\ bret' = bE
    /\ UNCHANGED <<bservers, replyNil, replyDone, bE, bcancelled, parentDone,
                   reply, replySets, order, tpc, terr, clone, served>>
    /\ UNCHANGED nonXClient

\* the context the caller passed to Broadcast reaches its deadline
ParentCancel ==
    /\ bpc = "running"
    /\ ~parentDone
    /\ parentDone' = TRUE
    /\ UNCHANGED <<bpc, bservers, replyNil, replyDone, bE, bcancelled, reply,
                   replySets, order, tpc, terr, clone, served, bret>>
    /\ UNCHANGED nonXClient

\* ---------------------------------------------------- MultiServersDiscovery
ErrNoServers == "rpc discovery: no available servers"
ErrMode == "rpc discovery: not supported select mode"

\* the server lists: the sequences of distinct addresses
Lists ==
    {l \in UNION {[1..n -> Addrs] : n \in 0..MaxServers} :
        \A i, j \in DOMAIN l : i # j => l[i] # l[j]}

\* NewMultiServerDiscovery(servers): index is a random non-negative number
InitDiscovery ==
    /\ dservers \in Lists
    /\ dindex \in 0..MaxIndex
    /\ dop = "none"
    /\ dres = 0
    /\ dall = << >>
    /\ derr = NoErr
    /\ rr = << >>

\* the discovery of the specifications that make no call on it
IdleDiscovery ==
    /\ InitDiscovery
    /\ dservers = << >>
    /\ dindex = 0

\* the index expression l[i] on a slice: an element, or 0 for the panic of an
\* index out of range
ElemAt(l, i) == IF i \in 0..(Len(l) - 1) THEN l[i + 1] ELSE 0

\* Get's round-robin branch: the position it reads and the index it leaves
PickAtRaw(i, n) == i
PickAt(i, n) == i % n
IndexAfterStuck(i, n) == i % n
IndexAfter(i, n) == (i + 1) % n

\* the body of MultiServersDiscovery.Get on the list l, hist being the picks
\* made on l so far; r is what d.r.Intn(n) gives
GetOn(l, hist, mode, r) ==
    LET n == Len(l) IN
    IF n = 0
      THEN /\ dres' = 0
           /\ derr' = ErrNoServers
           /\ rr' = hist
           /\ UNCHANGED dindex
      ELSE IF mode = RandomSelect
        THEN /\ dres' = l[(r % n) + 1]
             /\ derr' = NoErr
             /\ rr' = hist
             /\ UNCHANGED dindex
      ELSE IF mode = RoundRobinSelect
        THEN /\ dres' = ElemAt(l, PickAt(dindex, n))
             /\ derr' = NoErr
             /\ dindex' = IndexAfter(dindex, n)
             /\ rr' = Append(hist, [idx |-> PickAt(dindex, n),
                                    addr |-> ElemAt(l, PickAt(dindex, n)),
                                    raw |-> dindex])
        ELSE /\ dres' = 0
             /\ derr' = ErrMode
             /\ rr' = hist
             /\ UNCHANGED dindex

\* MultiServersDiscovery.Get
Get(mode, r) ==
    /\ Len(rr) < MaxGets
    /\ dop' = "Get"
    /\ GetOn(dservers, rr, mode, r)
    /\ dall' = << >>
    /\ UNCHANGED dservers
    /\ UNCHANGED gvars
    /\ UNCHANGED nonDiscovery

\* MultiServersDiscovery.GetAll: a copy of the list and a nil error
GetAll ==
    /\ dop' = "GetAll"
    /\ dall' = dservers
    /\ derr' = NoErr
    /\ dres' = 0
    /\ UNCHANGED <<dservers, dindex, rr>>
    /\ UNCHANGED gvars
    /\ UNCHANGED nonDiscovery

\* MultiServersDiscovery.Update
Update(l) ==
    /\ l # dservers
    /\ dop' = "Update"
    /\ dservers' = l
    /\ derr' = NoErr
    /\ rr' = << >>
    /\ dres' = 0
    /\ dall' = << >>
    /\ UNCHANGED dindex
    /\ UNCHANGED gvars
    /\ UNCHANGED nonDiscovery

\* ------------------------------------------- GoRegistry, GoRegistryDiscovery
ErrHTTP == "registry unreachable"

\* no heartbeat yet; the zero time.Time of a fresh GoRegistryDiscovery
Never == 0 - 1
ZeroTime == 0 - (MaxTime + 1)

\* the timeouts of the registry (0: entries never expire) and of the discovery
RegTimeouts == {0, 2}
DiscTimeouts == {1, 3}

\* registry.New(timeout) and NewGoRegistryDiscovery(registry, timeout)
InitRegistry(rts, dts) ==
    /\ now = 0
    /\ rtimeout \in rts
    /\ rservers = << >>
    /\ lastBeat = [a \in RegAddrs |-> Never]
    /\ rstatus = <<"none", 0, FALSE>>
    /\ ralive = << >>
    /\ dtimeout \in dts
    /\ lastUpdate = ZeroTime
    /\ dnow = FALSE
    /\ dqueried = FALSE

\* the registry of the specifications that make no call on it
IdleRegistry == InitRegistry({0}, {1})

\* aliveServers' test of one entry
AliveLate(a) == rtimeout = 0 \/ rservers[a] + rtimeout >= now
Alive(a) == rtimeout = 0 \/ rservers[a] + rtimeout > now

\* the orders in which a range over a map with the keys S may visit them
Orders(S) == {l \in [1..Cardinality(S) -> S] : \A x \in S : \E i \in DOMAIN l : l[i] = x}

\* number of occurrences of x in the list l
Count(l, x) == Cardinality({i \in DOMAIN l : l[i] = x})

\* sort.Strings, were it to leave the list as it is
SortNot(l) == l

\* sort.Strings: the ascending arrangement of the list
SortStrings(l) ==
    CHOOSE t \in [DOMAIN l -> {l[i] : i \in DOMAIN l}] :
        /\ \A i, j \in DOMAIN t : i < j => t[i] <= t[j]
        /\ \A i \in DOMAIN l : Count(t, l[i]) = Count(l, l[i])

\* aliveServers: the entries found alive while ranging over the map in the
\* order it, sorted; and the map with the others deleted
AliveList(it) == SortStrings(SelectSeq(it, Alive))
Purged == [a \in {b \in DOMAIN rservers : Alive(b)} |-> rservers[a]]

\* strings.Join(list, ","): the fields of the header value, one empty field
\* (0) for the empty list
JoinHeader(l) == IF l = << >> THEN <<0>> ELSE l

\* Refresh: strings.Split(header, ",") without the fields that are blank
NonBlank(x) == x # 0
ParseHeaderAll(h) == h
ParseHeader(h) == SelectSeq(h, NonBlank)

\* time passes
Tick ==
    /\ now < MaxTime
    /\ now' = now + 1
    /\ rstatus' = <<rstatus[1], rstatus[2], FALSE>>
    /\ dnow' = FALSE
    /\ UNCHANGED <<rtimeout, rservers, lastBeat, ralive, dtimeout, lastUpdate,
                   dqueried>>
    /\ UNCHANGED dvars
    /\ UNCHANGED nonDiscovery

\* ServeHTTP POST with X-Gorpc-Server: a (a heartbeat): putServer
Post(a) ==
    /\ rservers' = [b \in DOMAIN rservers \cup {a} |->
                        IF b = a THEN now ELSE rservers[b]]
    /\ lastBeat' = [lastBeat EXCEPT ![a] = now]
    /\ rstatus' = <<"POST", 200, TRUE>>
    /\ ralive' = << >>
    /\ dnow' = FALSE
    /\ UNCHANGED <<now, rtimeout, dtimeout, lastUpdate, dqueried>>
    /\ UNCHANGED dvars
    /\ UNCHANGED nonDiscovery

\* ServeHTTP POST without X-Gorpc-Server
PostNoAddr ==
    /\ rstatus' = <<"POST", 500, TRUE>>
    /\ ralive' = << >>
    /\ UNCHANGED <<now, rtimeout, rservers, lastBeat, dtimeout, lastUpdate,
                   dnow, dqueried>>
    /\ UNCHANGED dvars
    /\ UNCHANGED nonDiscovery

\* ServeHTTP with another method
OtherMethod ==
    /\ rstatus' = <<"PUT", 405, TRUE>>
    /\ ralive' = << >>
    /\ UNCHANGED <<now, rtimeout, rservers, lastBeat, dtimeout, lastUpdate,
                   dnow, dqueried>>
    /\ UNCHANGED dvars
    /\ UNCHANGED nonDiscovery

\* ServeHTTP GET: aliveServers
ServeGet(it) ==
    /\ ralive' = AliveList(it)
    /\ rservers' = Purged
    /\ rstatus' = <<"GET", 200, TRUE>>

\* a GET at the registry by some HTTP client
RegistryGet(it) ==
    /\ ServeGet(it)
    /\ UNCHANGED <<now, rtimeout, lastBeat, dtimeout, lastUpdate, dnow,
                   dqueried>>
    /\ UNCHANGED dvars
    /\ UNCHANGED nonDiscovery

\* GoRegistryDiscovery.Update
GUpdate(l) ==
    /\ dop' = "Update"
    /\ dservers' = l
    /\ lastUpdate' = now
    /\ derr' = NoErr
    /\ rr' = << >>
    /\ dres' = 0
    /\ dall' = << >>
    /\ dnow' = TRUE
    /\ dqueried' = FALSE
    /\ UNCHANGED dindex
    /\ UNCHANGED <<now, rtimeout, rservers, lastBeat, rstatus, ralive,
                   dtimeout>>
    /\ UNCHANGED nonDiscovery

\* Refresh leaves the list alone while lastUpdate + timeout is after now
Fresh == lastUpdate + dtimeout > now

\* what Refresh returns; ok: http.Get succeeds
RefreshErr(ok) == IF ~Fresh /\ ~ok THEN ErrHTTP ELSE NoErr

\* GoRegistryDiscovery.Refresh
RefreshOn(ok, it) ==
    /\ dnow' = TRUE
    /\ dqueried' = (~Fresh /\ ok)
    /\ IF Fresh \/ ~ok
          THEN UNCHANGED <<dservers, lastUpdate, rservers, ralive, rstatus>>
          ELSE /\ ServeGet(it)
               /\ dservers' = ParseHeader(JoinHeader(ralive'))
               /\ lastUpdate' = now
    /\ UNCHANGED <<now, rtimeout, lastBeat, dtimeout>>
    /\ UNCHANGED nonDiscovery

\* the round-robin picks made on the list Refresh leaves
PicksKept == IF dservers' = dservers THEN rr ELSE << >>

\* a call of Refresh by itself
GRefresh(ok, it) ==
    /\ RefreshOn(ok, it)
    /\ dop' = "Refresh"
    /\ derr' = RefreshErr(ok)
    /\ dres' = 0
    /\ dall' = << >>
    /\ rr' = PicksKept
    /\ UNCHANGED dindex

\* GoRegistryDiscovery.Get
GGet(mode, r, ok, it) ==
    /\ Len(rr) < MaxRegGets
    /\ RefreshOn(ok, it)
    /\ dop' = "Get"
    /\ dall' = << >>
    /\ IF RefreshErr(ok) # NoErr
          THEN /\ dres' = 0
               /\ derr' = RefreshErr(ok)
               /\ UNCHANGED <<dindex, rr>>
          ELSE GetOn(dservers', PicksKept, mode, r)

\* GoRegistryDiscovery.GetAll
GGetAll(ok, it) ==
    /\ RefreshOn(ok, it)
    /\ dop' = "GetAll"
    /\ dres' = 0
    /\ derr' = RefreshErr(ok)
    /\ dall' = IF RefreshErr(ok) # NoErr THEN << >> ELSE dservers'
    /\ rr' = PicksKept
    /\ UNCHANGED dindex

\* ------------------------------------------------------------ XClient.dial
InitCache ==
    /\ clients = << >>
    /\ cstate = [k \in Dialers |-> "none"]
    /\ cfor = [k \in Dialers |-> 0]
    /\ nconn = 0
    /\ xmu = NoHolder
    /\ dpc = [d \in Dialers |-> "idle"]
    /\ daddr = [d \in Dialers |-> 0]
    /\ dcl = [d \in Dialers |-> 0]
    /\ dret = [d \in Dialers |-> 0]

\* xc.mu.Lock(), were dial not to take the mutex
XMuNoLock == TRUE

\* xc.mu.Lock() returns only when nobody holds the mutex
XMuMayLock == xmu = NoHolder

\* Client.IsAvailable of the Client k
Available(k) == cstate[k] = "open"

\* dial: xc.mu.Lock()
DialLock(d, a) ==
    /\ dpc[d] = "idle"
    /\ XMuMayLock
    /\ xmu' = d
    /\ dpc' = [dpc EXCEPT ![d] = "check"]
    /\ daddr' = [daddr EXCEPT ![d] = a]
    /\ UNCHANGED <<clients, cstate, cfor, nconn, dcl, dret>>
    /\ UNCHANGED nonCache

\* dial: the cache lookup; a Client that is not available is closed and
\* deleted from the cache
DialCheck(d) ==
    /\ dpc[d] = "check"
    /\ LET k == Lookup(clients, daddr[d]) IN
         IF k # 0 /\ ~Available(k)
         THEN /\ cstate' = [cstate EXCEPT ![k] = "closed"]
              /\ clients' = Without(clients, daddr[d])
              /\ dcl' = [dcl EXCEPT ![d] = 0]
         ELSE /\ dcl' = [dcl EXCEPT ![d] = k]
              /\ UNCHANGED <<clients, cstate>>
    /\ dpc' = [dpc EXCEPT ![d] = "dial"]
    /\ UNCHANGED <<cfor, nconn, xmu, daddr, dret>>
    /\ UNCHANGED nonCache

\* dial: XDial when client == nil, the store into the cache, the return with
\* the deferred xc.mu.Unlock()
DialConnect(d, ok) ==
    /\ dpc[d] = "dial"
    /\ dcl[d] # 0 => ok
    /\ IF dcl[d] # 0
       THEN /\ dret' = [dret EXCEPT ![d] = dcl[d]]
            /\ UNCHANGED <<clients, cstate, cfor, nconn>>
       ELSE IF ok
            THEN /\ nconn' = nconn + 1
                 /\ cstate' = [cstate EXCEPT ![nconn + 1] = "open"]
                 /\ cfor' = [cfor EXCEPT ![nconn + 1] = daddr[d]]
                 /\ clients' = With(clients, daddr[d], nconn + 1)
                 /\ dret' = [dret EXCEPT ![d] = nconn + 1]
            ELSE /\ dret' = [dret EXCEPT ![d] = 0]
                 /\ UNCHANGED <<clients, cstate, cfor, nconn>>
    /\ xmu' = IF xmu = d THEN NoHolder ELSE xmu
    /\ dpc' = [dpc EXCEPT ![d] = "done"]
    /\ UNCHANGED <<daddr, dcl>>
    /\ UNCHANGED nonCache

\* the receiver of a Client ends on a connection error: shutdown is set
ClientDown(k) ==
    /\ cstate[k] = "open"
    /\ cstate' = [cstate EXCEPT ![k] = "down"]
    /\ UNCHANGED <<clients, cfor, nconn, xmu, dpc, daddr, dcl, dret>>
    /\ UNCHANGED nonCache

\* XClient.Close: every cached Client is closed and deleted, under xc.mu
XClose ==
    /\ xmu = NoHolder
    /\ clients # << >>
    /\ cstate' = [k \in Dialers |->
                     IF \E a \in DOMAIN clients : clients[a] = k
                     THEN "closed" ELSE cstate[k]]
    /\ clients' = << >>
    /\ UNCHANGED <<cfor, nconn, xmu, dpc, daddr, dcl, dret>>
    /\ UNCHANGED nonCache

\* ------------------------------------------------- the Client's two locks
\* capacity of the done channel the users hand to Go (Go refuses capacity 0)
UserDoneCap == 1

InitLocks ==
    /\ lsending = NoHolder
    /\ lmu = NoHolder
    /\ lpc = [t \in LUsers \cup {LRecv} |-> IF t = LRecv THEN "hdr" ELSE "idle"]
    /\ lpend = {}
    /\ lclosing = FALSE
    /\ lshutdown = FALSE
    /\ ldone = 0
    /\ lterm = {}
    /\ lwritten = {}

\* call.done(), were it never to wait for room in the channel
DoneNeverBlocks == TRUE

\* call.done(): call.Done <- call returns only when the channel has room
DoneMayProceed == ldone < UserDoneCap

\* send: client.sending.Lock()
SendLock(u) ==
    /\ lpc[u] = "idle"
    /\ lsending = NoHolder
    /\ lsending' = u
    /\ lpc' = [lpc EXCEPT ![u] = "register"]
    /\ UNCHANGED <<lmu, lpend, lclosing, lshutdown, ldone, lterm, lwritten>>
    /\ UNCHANGED nonLocks

\* send: registerCall, under client.mu
RegisterCall(u) ==
    /\ lpc[u] = "register"
    /\ lmu = NoHolder
    /\ IF lclosing \/ lshutdown
       THEN /\ lpc' = [lpc EXCEPT ![u] = "done"]
            /\ UNCHANGED lpend
       ELSE /\ lpc' = [lpc EXCEPT ![u] = "write"]
            /\ lpend' = lpend \cup {u}
    /\ UNCHANGED <<lsending, lmu, lclosing, lshutdown, ldone, lterm, lwritten>>
    /\ UNCHANGED nonLocks

\* send: cc.Write returns; nil leads to the return of send
Write(u, ok) ==
    /\ lpc[u] = "write"
    /\ lpc' = [lpc EXCEPT ![u] = IF ok THEN "unlock" ELSE "remove"]
    /\ lwritten' = IF ok THEN lwritten \cup {u} ELSE lwritten
    /\ UNCHANGED <<lsending, lmu, lpend, lclosing, lshutdown, ldone, lterm>>
    /\ UNCHANGED nonLocks

\* send: removeCall after a failed write, under client.mu
SendRemoveCall(u) ==
    /\ lpc[u] = "remove"
    /\ lmu = NoHolder
    /\ lpend' = lpend \ {u}
    /\ lpc' = [lpc EXCEPT ![u] = IF u \in lpend THEN "done" ELSE "unlock"]
    /\ UNCHANGED <<lsending, lmu, lclosing, lshutdown, ldone, lterm, lwritten>>
    /\ UNCHANGED nonLocks

\* send: call.done() on its error paths, client.sending still held
SendDone(u) ==
    /\ lpc[u] = "done"
    /\ DoneMayProceed
    /\ ldone' = ldone + 1
    /\ lpc' = [lpc EXCEPT ![u] = "unlock"]
    /\ UNCHANGED <<lsending, lmu, lpend, lclosing, lshutdown, lterm, lwritten>>
    /\ UNCHANGED nonLocks

\* send returns: the deferred client.sending.Unlock(); Go returns
SendUnlock(u) ==
    /\ lpc[u] = "unlock"
    /\ lsending' = NoHolder
    /\ lpc' = [lpc EXCEPT ![u] = "sent"]
    /\ UNCHANGED <<lmu, lpend, lclosing, lshutdown, ldone, lterm, lwritten>>
    /\ UNCHANGED nonLocks

\* what a user does once Go has returned: call Close, call IsAvailable, or
\* read its done channel at once
UserOps == {"close", "available", "read"}

UserGoesOn(u, op) ==
    /\ lpc[u] = "sent"
    /\ lpc' = [lpc EXCEPT ![u] = op]
    /\ UNCHANGED <<lsending, lmu, lpend, lclosing, lshutdown, ldone, lterm,
                   lwritten>>
    /\ UNCHANGED nonLocks

\* Client.Close, under client.mu; the user reads its done channel afterwards
UserClose(u) ==
    /\ lpc[u] = "close"
    /\ lmu = NoHolder
    /\ lclosing' = TRUE
    /\ lpc' = [lpc EXCEPT ![u] = "read"]
    /\ UNCHANGED <<lsending, lmu, lpend, lshutdown, ldone, lterm, lwritten>>
    /\ UNCHANGED nonLocks

\* Client.IsAvailable, under client.mu
UserIsAvailable(u) ==
    /\ lpc[u] = "available"
    /\ lmu = NoHolder
    /\ lpc' = [lpc EXCEPT ![u] = "read"]
    /\ UNCHANGED <<lsending, lmu, lpend, lclosing, lshutdown, ldone, lterm,
                   lwritten>>
    /\ UNCHANGED nonLocks

\* the user reads one call from its done channel
UserRead(u) ==
    /\ lpc[u] = "read"
    /\ ldone > 0
    /\ ldone' = ldone - 1
    /\ lpc' = [lpc EXCEPT ![u] = "end"]
    /\ UNCHANGED <<lsending, lmu, lpend, lclosing, lshutdown, lterm, lwritten>>
    /\ UNCHANGED nonLocks

\* receive: a response to a request that went out; removeCall under client.mu
RecvRemoveCall(u) ==
    /\ lpc[LRecv] = "hdr"
    /\ u \in lwritten
    /\ lmu = NoHolder
    /\ lwritten' = lwritten \ {u}
    /\ lpend' = lpend \ {u}
    /\ lpc' = [lpc EXCEPT ![LRecv] = IF u \in lpend THEN "done" ELSE "hdr"]
    /\ UNCHANGED <<lsending, lmu, lclosing, lshutdown, ldone, lterm>>
    /\ UNCHANGED nonLocks

\* receive: call.done() for the response, no lock held
RecvDone ==
    /\ lpc[LRecv] = "done"
    /\ DoneMayProceed
    /\ ldone' = ldone + 1
    /\ lpc' = [lpc EXCEPT ![LRecv] = "hdr"]
    /\ UNCHANGED <<lsending, lmu, lpend, lclosing, lshutdown, lterm, lwritten>>
    /\ UNCHANGED nonLocks

\* receive: ReadHeader fails, the loop ends
RecvFail ==
    /\ lpc[LRecv] = "hdr"
    /\ lpc' = [lpc EXCEPT ![LRecv] = "lockSending"]
    /\ UNCHANGED <<lsending, lmu, lpend, lclosing, lshutdown, ldone, lterm,
                   lwritten>>
    /\ UNCHANGED nonLocks

\* terminateCalls: client.sending.Lock()
TermLockSending ==
    /\ lpc[LRecv] = "lockSending"
    /\ lsending = NoHolder
    /\ lsending' = LRecv
    /\ lpc' = [lpc EXCEPT ![LRecv] = "lockMu"]
    /\ UNCHANGED <<lmu, lpend, lclosing, lshutdown, ldone, lterm, lwritten>>
    /\ UNCHANGED nonLocks

\* terminateCalls: client.mu.Lock(), shutdown = true, the range over pending
TermLockMu ==
    /\ lpc[LRecv] = "lockMu"
    /\ lmu = NoHolder
    /\ lmu' = LRecv
    /\ lshutdown' = TRUE
    /\ lterm' = lpend
    /\ lpc' = [lpc EXCEPT ![LRecv] = "range"]
    /\ UNCHANGED <<lsending, lpend, lclosing, ldone, lwritten>>
    /\ UNCHANGED nonLocks

\* terminateCalls: call.done() for one pending call, both locks held
TermDone(u) ==
    /\ lpc[LRecv] = "range"
    /\ u \in lterm
    /\ DoneMayProceed
    /\ ldone' = ldone + 1
    /\ lterm' = lterm \ {u}
    /\ UNCHANGED <<lsending, lmu, lpc, lpend, lclosing, lshutdown, lwritten>>
    /\ UNCHANGED nonLocks

\* terminateCalls returns: client.mu.Unlock(), client.sending.Unlock()
TermUnlock ==
    /\ lpc[LRecv] = "range"
    /\ lterm = {}
    /\ lmu' = NoHolder
    /\ lsending' = NoHolder
    /\ lpc' = [lpc EXCEPT ![LRecv] = "exit"]
    /\ UNCHANGED <<lpend, lclosing, lshutdown, ldone, lterm, lwritten>>
    /\ UNCHANGED nonLocks

\* ------------------------------------------------ Server.Register, ServeConn
ErrDup == "rpc: service already defined"

\* the magic number of the handshake
Number == 1715004

\* the codec names with an entry in codec.NewCodecFuncMap
CodecNames == {"gob"}

\* the Options a connection may begin with: whether the JSON decodes, the
\* magic number, the codec name, HandleTimeout (1 for any > 0)
Options ==
    [decodes : BOOLEAN, number : {Number, 0}, codec : {"gob", "bogus"},
     ht : {0, 1}]

DefaultOption == [decodes |-> TRUE, number |-> Number, codec |-> "gob", ht |-> 0]

\* the names of the services registered
ServiceNames == {"Foo", "Bar"}

InitServices ==
    /\ hopt = DefaultOption
    /\ connClosed = FALSE
    /\ serviceMap = << >>
    /\ regpc = [r \in Registrants |-> "idle"]
    /\ regName = [r \in Registrants |-> ""]
    /\ regRet = [r \in Registrants |-> "none"]
    /\ flast = <<"", 0>>

\* Register: s := newService(rcvr)
NewService(r, n) ==
    /\ regpc[r] = "idle"
    /\ regpc' = [regpc EXCEPT ![r] = "made"]
    /\ regName' = [regName EXCEPT ![r] = n]
    /\ UNCHANGED <<hopt, connClosed, serviceMap, regRet, flast>>
    /\ UNCHANGED nonServices

\* sync.Map.LoadOrStore(n, r): the map it leaves
StoreAlways(m, n, r) == [k \in DOMAIN m \cup {n} |-> IF k = n THEN r ELSE m[k]]
LoadOrStore(m, n, r) ==
    IF n \in DOMAIN m THEN m
    ELSE [k \in DOMAIN m \cup {n} |-> IF k = n THEN r ELSE m[k]]

\* Register: LoadOrStore and the result
Register(r) ==
    /\ regpc[r] = "made"
    /\ regpc' = [regpc EXCEPT ![r] = "done"]
    /\ serviceMap' = LoadOrStore(serviceMap, regName[r], r)
    /\ regRet' = [regRet EXCEPT ![r] =
                      IF regName[r] \in DOMAIN serviceMap THEN ErrDup
                      ELSE NoErr]
    /\ UNCHANGED <<hopt, connClosed, regName, flast>>
    /\ UNCHANGED nonServices

\* findService: serviceMap.Load(serviceName), 0 when there is no such service
FindService(n) ==
    /\ flast' = <<n, IF n \in DOMAIN serviceMap THEN serviceMap[n] ELSE 0>>
    /\ UNCHANGED <<hopt, connClosed, serviceMap, regpc, regName, regRet>>
    /\ UNCHANGED nonServices

\* ServeConn goes on to serveCodec
AcceptsAnyNumber(o) == o.decodes /\ o.codec \in CodecNames
Accepts(o) == o.decodes /\ o.number = Number /\ o.codec \in CodecNames

\* ServeConn up to serveCodec, or to its return with the deferred conn.Close()
ServeConn(o) ==
    /\ spc = "handshake"
    /\ hopt' = o
    /\ IF Accepts(o)
          THEN /\ spc' = "read"
               /\ handleTimeout' = o.ht
               /\ UNCHANGED connClosed
          ELSE /\ spc' = "refused"
               /\ connClosed' = TRUE
               /\ UNCHANGED handleTimeout
    /\ UNCHANGED <<sin, sout, eof, nreq, ssending, sreq, reqM, hErr, hpc,
                   wpc, sclosed>>
    /\ UNCHANGED <<serviceMap, regpc, regName, regRet, flast>>
    /\ UNCHANGED nonConn

\* ServeConn after serveCodec has returned: the deferred conn.Close()
ServeConnReturn ==
    /\ spc = "closed"
    /\ ~connClosed
    /\ connClosed' = TRUE
    /\ UNCHANGED <<hopt, serviceMap, regpc, regName, regRet, flast>>
    /\ UNCHANGED svars
    /\ UNCHANGED nonConn

\* ------------------------------------------------------------ specification
\* the client specification: the server side of the module stays idle
Init == InitClient /\ InitServer({0}) /\ InitXClient
    /\ IdleDiscovery /\ IdleRegistry /\ InitServices /\ InitCache /\ InitLocks

\* the server specification: the client side of the module stays idle
ServerInit == InitClient /\ InitServer({0, 1}) /\ InitXClient
    /\ IdleDiscovery /\ IdleRegistry /\ InitServices /\ InitCache /\ InitLocks

RemoteStep ==
    \/ \E m \in Methods : ClientSend(m)
    \/ ClientEOF

LoopStep ==
    \/ ReadRequest
    \/ ReadEOF
    \/ LoopReplyHeader
    \/ LoopReplyBody
    \/ ServeClose

HandlerStep ==
    \E s \in Seqs :
        \/ HandleStart(s)
        \/ WorkerCall(s)
        \/ Called(s)
        \/ WorkerSendHeader(s)
        \/ WorkerSendBody(s)
        \/ Sent(s)
        \/ TimeoutSendHeader(s)
        \/ TimeoutSendBody(s)

ServerNext == RemoteStep \/ LoopStep \/ HandlerStep

ServerSpec == ServerInit /\ [][ServerNext]_vars

CallerStep ==
    \E c \in Callers :
        \/ \E e \in Entries : Go(c, e[1], e[2])
        \/ CallRecvDone(c)
        \/ CallSelect(c)
        \/ GoRecvDone(c)

WriterStep ==
    \E c \in Callers :
        \/ WriteHeader(c)
        \/ WriteBody(c)
        \/ WriteOk(c)
        \/ WriteErr(c)

ReceiverStep ==
    \/ RecvHeader
    \/ RecvHeaderErr
    \/ \E ok \in BOOLEAN : RecvBody(ok)
    \/ TerminateCalls

PeerStep ==
    \/ PeerRead
    \/ PeerAbort
    \/ \E s \in inflight : \E e \in {"", ErrServer} : PeerRespond(s, e)

EnvStep ==
    \/ \E c \in Callers : Cancel(c)
    \/ ConnFail
    \/ Close
    \/ Probe

Next == CallerStep \/ WriterStep \/ ReceiverStep \/ PeerStep \/ EnvStep

Spec == Init /\ [][Next]_vars

\* the goroutines that are runnable get to run, and the peer answers what it
\* has read or the connection fails
FairSpec ==
    /\ Spec
    /\ WF_vars(WriterStep)
    /\ WF_vars(ReceiverStep)
    /\ WF_vars(PeerStep)

\* the client with a peer whose error responses carry any of the server's
\* error texts
PeerErrStep ==
    \/ PeerRead
    \/ PeerAbort
    \/ \E s \in inflight : \E e \in {""} \cup ServerErrors : PeerRespond(s, e)

ErrorsNext ==
    CallerStep \/ WriterStep \/ ReceiverStep \/ PeerErrStep \/ EnvStep

ErrorsSpec == Init /\ [][ErrorsNext]_vars

\* the XClient specification: one Broadcast over the servers of a discovery
XInit == InitClient /\ InitServer({0}) /\ InitXClient
    /\ IdleDiscovery /\ IdleRegistry /\ InitServices /\ InitCache /\ InitLocks

BroadcastStep ==
    \/ \E S \in SUBSET Addrs : \E rn \in BOOLEAN : BroadcastStart(S, rn)
    \/ BroadcastGetAllErr
    \/ BroadcastReturn
    \/ ParentCancel

TaskStep ==
    \E a \in Addrs :
        \/ \E ok \in BOOLEAN : TaskDial(a, ok)
        \/ \E r \in {"ok", "err"} : Complete(a, r)
        \/ TaskAwait(a)
        \/ TaskSelectCtx(a)
        \/ TaskSelectDone(a)
        \/ TaskRecord(a)

XNext == BroadcastStep \/ TaskStep

XSpec == XInit /\ [][XNext]_vars

\* what d.r.Intn may give to a Get on at most n servers; only the random
\* mode draws
Draws(mode, n) == IF mode = RandomSelect THEN 0..(n - 1) ELSE {0}

\* whether http.Get succeeds, for the Refresh that gets that far
Replies == IF Fresh THEN {TRUE} ELSE BOOLEAN

\* the discovery specification: calls on one MultiServersDiscovery
DiscoveryInit ==
    /\ InitClient /\ InitServer({0}) /\ InitXClient
    /\ InitDiscovery
    /\ IdleRegistry
    /\ InitServices /\ InitCache /\ InitLocks

DiscoveryNext ==
    \/ \E mode \in Modes : \E r \in Draws(mode, MaxServers) : Get(mode, r)
    \/ GetAll
    \/ \E l \in Lists : Update(l)

DiscoverySpec == DiscoveryInit /\ [][DiscoveryNext]_vars

\* the registry specification: heartbeats and queries at one GoRegistry over
\* time, and one GoRegistryDiscovery that refreshes from it
RegistryInit ==
    /\ InitClient /\ InitServer({0}) /\ InitXClient
    /\ IdleDiscovery
    /\ InitRegistry(RegTimeouts, DiscTimeouts)
    /\ InitServices /\ InitCache /\ InitLocks

RegistryStep ==
    \/ \E a \in RegAddrs : Post(a)
    \/ PostNoAddr
    \/ OtherMethod
    \/ \E it \in Orders(DOMAIN rservers) : RegistryGet(it)

GDiscoveryStep ==
    \E ok \in Replies : \E it \in Orders(DOMAIN rservers) :
        \/ GRefresh(ok, it)
        \/ \E mode \in Modes : \E r \in Draws(mode, MaxRegServers) :
                GGet(mode, r, ok, it)
        \/ GGetAll(ok, it)

RegistryNext ==
    \/ Tick
    \/ RegistryStep
    \/ GDiscoveryStep
    \/ \E l \in {<< >>, <<MaxRegServers>>} : GUpdate(l)

RegistrySpec == RegistryInit /\ [][RegistryNext]_vars

\* the service map specification: concurrent Register calls and lookups
RegisterInit ==
    /\ InitClient /\ InitServer({0}) /\ InitXClient
    /\ IdleDiscovery /\ IdleRegistry /\ InitServices /\ InitCache /\ InitLocks

RegisterNext ==
    \/ \E r \in Registrants : \E n \in ServiceNames : NewService(r, n)
    \/ \E r \in Registrants : Register(r)
    \/ \E n \in ServiceNames : FindService(n)

RegisterSpec == RegisterInit /\ [][RegisterNext]_vars

\* the connection specification: ServeConn from the handshake on, with a
\* remote client that may write requests at any time
ConnInit ==
    /\ InitClient /\ InitXClient
    /\ IdleDiscovery /\ IdleRegistry /\ InitServices /\ InitCache /\ InitLocks
    /\ handleTimeout = 0
    /\ sin = << >>
    /\ sout = << >>
    /\ eof = FALSE
    /\ nreq = 0
    /\ ssending = NoHolder
    /\ spc = "handshake"
    /\ sreq = Garbage
    /\ reqM = [s \in Seqs |-> ""]
    /\ hErr = [s \in Seqs |-> ""]
    /\ hpc = [s \in Seqs |-> "none"]
    /\ wpc = [s \in Seqs |-> "none"]
    /\ sclosed = FALSE

ConnNext ==
    \/ \E o \in Options : ServeConn(o)
    \/ ServeConnReturn
    \/ RemoteStep
    \/ LoopStep
    \/ HandlerStep

ConnSpec == ConnInit /\ [][ConnNext]_vars

\* the server connection with its goroutines scheduled fairly: the loop, the
\* handlers and the workers take the steps they can take, and every method
\* invocation returns; the remote client is free to stop
ServerFairness ==
    /\ WF_vars(LoopStep)
    /\ \A s \in Seqs :
          /\ WF_vars(HandleStart(s))
          /\ WF_vars(WorkerCall(s))
          /\ WF_vars(Called(s))
          /\ WF_vars(WorkerSendHeader(s))
          /\ WF_vars(WorkerSendBody(s))
          /\ WF_vars(Sent(s))
          /\ WF_vars(TimeoutSendBody(s))

ServerFairSpec == ServerInit /\ [][ServerNext]_vars /\ ServerFairness

\* both ends of connections at work: callers sending requests through one
\* Client whose contexts are never cancelled, and one server connection
\* answering its requests
FramesCallerStep ==
    \E c \in Callers :
        \/ \E e \in Entries : Go(c, e[1], e[2])
        \/ CallRecvDone(c)
        \/ GoRecvDone(c)

FramesInit ==
    /\ InitClient /\ InitServer({1}) /\ InitXClient
    /\ IdleDiscovery /\ IdleRegistry /\ InitServices /\ InitCache /\ InitLocks

FramesNext == FramesCallerStep \/ WriterStep \/ ServerNext

FramesSpec == FramesInit /\ [][FramesNext]_vars

\* the client cache specification: concurrent dials, Clients going down
DialInit ==
    /\ InitClient /\ InitServer({0}) /\ InitXClient
    /\ IdleDiscovery /\ IdleRegistry /\ InitServices /\ InitCache /\ InitLocks

DialNext ==
    \/ \E d \in Dialers : \E a \in DialAddrs : DialLock(d, a)
    \/ \E d \in Dialers : DialCheck(d)
    \/ \E d \in Dialers : \E ok \in BOOLEAN : DialConnect(d, ok)
    \/ \E k \in Dialers : ClientDown(k)
    \/ XClose

DialSpec == DialInit /\ [][DialNext]_vars

\* the lock specification: two users of one Client and its receiver, every
\* goroutine taking the steps it can take
LocksInit ==
    /\ InitClient /\ InitServer({0}) /\ InitXClient
    /\ IdleDiscovery /\ IdleRegistry /\ InitServices /\ InitCache /\ InitLocks

UserSteps(u) ==
    \/ SendLock(u)
    \/ RegisterCall(u)
    \/ \E ok \in BOOLEAN : Write(u, ok)
    \/ SendRemoveCall(u)
    \/ SendDone(u)
    \/ SendUnlock(u)
    \/ \E op \in UserOps : UserGoesOn(u, op)
    \/ UserClose(u)
    \/ UserIsAvailable(u)
    \/ UserRead(u)

UserStep == \E u \in LUsers : UserSteps(u)

LRecvStep ==
    \/ \E u \in LUsers : RecvRemoveCall(u)
    \/ RecvDone
    \/ RecvFail
    \/ TermLockSending
    \/ TermLockMu
    \/ \E u \in LUsers : TermDone(u)
    \/ TermUnlock

LocksNext == UserStep \/ LRecvStep

LocksSpec ==
    /\ LocksInit
    /\ [][LocksNext]_vars
    /\ \A u \in LUsers : WF_vars(UserSteps(u))
    /\ WF_vars(LRecvStep)

\* ------------------------------------------------------------------ claims
\* a caller whose call went through registerCall successfully
Registered(c) == pc[c] \notin {"idle"} /\ callSeq[c] # 0

C2_CallReturnsOnCompletion ==
    \A c \in Callers :
        (kind[c] = "Call" /\ fired[c] > 0 /\ callError[c] = NoErr /\ ctx[c] = "live")
            => \/ doneCh[c] > 0
               \/ pc[c] = "returned" /\ result[c] = NoErr /\ callReply[c]

\* Client.Call is blocked: nothing it waits for is ready
CallBlocked(c) ==
    \/ pc[c] = "sent" /\ doneCh[c] = 0
    \/ pc[c] = "select" /\ Ready(c) = {}

\* C3: a Call that is waiting when its context is cancelled is not blocked: it
\* can return the cancellation error without the response having arrived
C3_CancelUnblocksCall ==
    \A c \in Callers :
        (kind[c] = "Call" /\ ctx[c] = "cancelled" /\ pc[c] \in {"sent", "select"})
            => ~CallBlocked(c)

\* C6: when the receiver has read a header whose seq is not in pending and
\* the body can be read, it consumes exactly the body item of that response,
\* completes no Call, leaves pending, closing and shutdown unchanged, and is
\* back at reading the next header
C6_UnknownSeqDrained ==
    [][/\ (rpc = "hdr" /\ rpc' = "body" /\ rcall' = NoCall)
            => /\ pending' = pending
               /\ fired' = fired /\ doneCh' = doneCh
               /\ closing' = closing /\ shutdown' = shutdown
       /\ (rpc = "body" /\ rcall = NoCall /\ rpc' # "body" /\ rerr' = NoErr)
            => /\ Head(cin) = Body(rhdr.seq)
               /\ cin' = Tail(cin)
               /\ pending' = pending
               /\ fired' = fired /\ doneCh' = doneCh /\ callError' = callError
               /\ closing' = closing /\ shutdown' = shutdown
               /\ rpc' = "hdr"
               /\ (cin' # << >> => Head(cin').t = "H")]_vars

\* C6 witness: a response for a seq nobody waits for has been dropped while a
\* call is pending, and the receiver is reading headers again
C6_Witness ==
    /\ rcase = "drop"
    /\ rpc = "hdr"
    /\ pending # << >>
    /\ ~shutdown

\* C7: terminateCalls sets shutdown and completes every Call in pending with
\* the error of the failed read; once it has run, pending holds no Call that
\* was not completed
C7_TerminateCompletesAll ==
    /\ [][(rpc = "term" /\ rpc' = "exit")
            => /\ shutdown'
               /\ \A s \in DOMAIN pending :
                    /\ fired'[pending[s]] = fired[pending[s]] + 1
                    /\ callError'[pending[s]] = rerr]_vars
    /\ [](rpc = "exit" => \A s \in DOMAIN pending : fired[pending[s]] >= 1)

\* C7 witness: terminateCalls has completed two pending calls with the read
\* error
C7_Witness ==
    /\ rpc = "exit"
    /\ shutdown
    /\ Cardinality(DOMAIN pending) = 2
    /\ \A s \in DOMAIN pending :
        fired[pending[s]] = 1 /\ callError[pending[s]] = ErrRead

\* C8: a Go or Call that starts when closing or shutdown is set completes the
\* Call at once with ErrShutdown, assigns and consumes no seq, leaves pending
\* alone and writes nothing; IsAvailable returns true exactly when neither
\* flag is set
C8_NoNewCallsOnceClosed ==
    [][/\ \A c \in Callers :
            (pc[c] = "idle" /\ pc'[c] # "idle" /\ (closing \/ shutdown))
                => /\ fired'[c] = 1 /\ doneCh'[c] = 1
                   /\ callError'[c] = ErrShutdown
                   /\ callSeq'[c] = 0
                   /\ seq' = seq /\ pending' = pending
                   /\ cout' = cout /\ header' = header
                   /\ sending' = sending
                   /\ pc'[c] = "sent"
       /\ (avail' # avail) => (avail' <=> (~closing /\ ~shutdown))]_vars

\* C8 witness: a call was refused with ErrShutdown on a client that is closing
\* but not shut down, and IsAvailable has returned false
C8_Witness ==
    /\ \E c \in Callers :
        pc[c] # "idle" /\ callSeq[c] = 0 /\ fired[c] = 1 /\ callError[c] = ErrShutdown
    /\ closing /\ ~shutdown
    /\ ~avail

\* C9: pending is empty once every registered call has completed
C9_PendingEmptyOnceAllCompleted ==
    (\A c \in Callers : Registered(c) => fired[c] >= 1) => pending = << >>

\* C10: a call that registerCall accepts gets the current seq, which is at
\* least 1, is 1 for the first call, and is greater than the seq of every call
\* registered before; no two calls share a seq
C10_SeqStrictlyIncreasing ==
    /\ [][\A c \in Callers :
            (pc[c] = "idle" /\ pc'[c] = "hdr")
                => /\ callSeq'[c] = seq
                   /\ callSeq'[c] >= 1
                   /\ seq' > seq
                   /\ (\A d \in Callers : pc[d] = "idle") => callSeq'[c] = 1
                   /\ \A d \in Callers \ {c} :
                        pc[d] # "idle" => callSeq[d] < callSeq'[c]]_vars
    /\ [](\A c, d \in Callers :
            (c # d /\ Registered(c) /\ Registered(d)) => callSeq[c] # callSeq[d])

\* C10 witness: two calls registered, the first one cancelled and returned
C10_Witness ==
    \E c, d \in Callers :
        /\ callSeq[c] = 1 /\ callSeq[d] = 2
        /\ result[c] = ErrCtx

\* the response frames written for request s
FramesFor(s) ==
    Cardinality({i \in DOMAIN sout : sout[i].t = "H" /\ sout[i].seq = s})

\* C4: no request has more than one response frame on the wire, and a request
\* whose handleRequest has returned has exactly one
C4_OneResponsePerRequest ==
    \A s \in Seqs :
        /\ FramesFor(s) <= 1
        /\ hpc[s] = "done" => FramesFor(s) = 1

\* C5: whenever the dispatch loop is about to read a header, or to write the
\* error reply of a failed lookup, the unread stream starts on a frame
\* boundary
C5_StreamStaysAligned ==
    (spc \in {"read", "reply", "replying"} /\ sin # << >>) => Head(sin).t = "H"

\* the state of the Client apart from what Close returned to its caller
ClientState ==
    <<seq, pending, closing, shutdown, sending, header, codecClosed,
      connBroken, cout, cin, inflight, callSeq, callError, callReply, doneCh,
      fired, pc, kind, ctx, result, rpc, rcall, rhdr, rerr, rcase, avail,
      ccCloses>>

\* C11: the first Close sets closing and closes the codec; a Close on a
\* client that is already closing returns ErrShutdown, does not call
\* cc.Close() again and changes no client state, so the codec is closed at
\* most once
C11_SecondCloseRefused ==
    /\ [][closeRet' # closeRet =>
            IF closing
              THEN closeRet' = ErrShutdown /\ UNCHANGED ClientState
              ELSE /\ closeRet' = NoErr
                   /\ closing' /\ codecClosed'
                   /\ ccCloses' = ccCloses + 1]_vars
    /\ [](ccCloses <= 1)
    /\ [](closing <=> ccCloses = 1)

\* C11 witness: Close has been called twice, the second call got ErrShutdown
C11_Witness == closeRet = ErrShutdown /\ closing /\ ccCloses = 1

\* the positions in order of the tasks whose call succeeded / failed
OkAt == {i \in DOMAIN order : order[i].err = NoErr}
ErrAt == {i \in DOMAIN order : order[i].err # NoErr}

\* the least element of a non-empty set of positions
First(I) == CHOOSE i \in I : \A j \in I : i <= j

C13_FirstErrorWins ==
    /\ [](bE = IF ErrAt = {} THEN NoErr ELSE order[First(ErrAt)].err)
    /\ [](bcancelled <=> ErrAt # {})
    /\ [][bE # NoErr => bE' = bE]_vars
    /\ []((bpc = "returned" /\ bret # ErrGetAll) => bret = bE)

\* C13 witness: Broadcast returned the error of the first task to fail, a
\* later task failed with another error
C13_Witness ==
    /\ bpc = "returned"
    /\ \E i, j \in ErrAt : i < j /\ i = First(ErrAt)
                             /\ order[j].err # order[i].err
                             /\ bret = order[i].err

\* the task for address a is inside Client.Call and nothing it waits for is
\* ready
TaskBlocked(a) ==
    \/ tpc[a] = "await" /\ served[a] = "none"
    \/ tpc[a] = "select" /\ ~ENABLED TaskSelectCtx(a)
                         /\ ~ENABLED TaskSelectDone(a)

\* C14: once the first error has cancelled the shared context, no task that
\* is still inside its call is blocked: it returns without its server's
\* response
C14_FailFast ==
    \A a \in Addrs :
        (bcancelled /\ tpc[a] \in {"await", "select"}) => ~TaskBlocked(a)

\* the addresses of a list
Range(l) == {l[i] : i \in DOMAIN l}

\* C15: on a fixed list of N >= 1 servers and from any initial index, the
\* round-robin picks follow the list cyclically, and any N consecutive picks
\* are the N servers, each exactly once
C15_RoundRobinCycle ==
    LET N == Len(dservers) IN
    /\ \A i \in DOMAIN rr :
          /\ rr[i].idx \in 0..(N - 1)
          /\ rr[i].addr = dservers[rr[i].idx + 1]
    /\ \A i \in 1..(Len(rr) - 1) : rr[i + 1].idx = (rr[i].idx + 1) % N
    /\ \A i \in 1..(Len(rr) - N + 1) :
          /\ {rr[j].addr : j \in i..(i + N - 1)} = Range(dservers)
          /\ \A j, k \in i..(i + N - 1) : j # k => rr[j].addr # rr[k].addr

\* C15 witness: two full rounds over three servers that began in the middle
\* of the list
C15_Witness ==
    /\ Len(dservers) = 3
    /\ Len(rr) = 6
    /\ rr[1].idx = 1
    /\ dindex = 1

\* C16: after a Get or a GetAll on an empty list the call has returned the
\* no-servers error
C16_EmptyListIsError ==
    (Len(dservers) = 0 /\ dop \in {"Get", "GetAll"}) => derr = ErrNoServers

\* the most recent heartbeat of a is within the registry's timeout
BeatAlive(a) ==
    lastBeat[a] # Never /\ (rtimeout = 0 \/ lastBeat[a] + rtimeout > now)

\* the list is sorted ascending without duplicates
Ascending(l) == \A i, j \in DOMAIN l : i < j => l[i] < l[j]

\* C17: the list a query at the registry returns is sorted ascending without
\* duplicates and holds exactly the addresses whose most recent heartbeat t
\* has t + timeout > now (all that ever sent one when timeout is 0); the
\* query leaves in the map exactly those entries, with the time of that
\* heartbeat
C17_AliveListExact ==
    /\ Ascending(ralive)
    /\ rstatus = <<"GET", 200, TRUE>>
          => /\ Range(ralive) = {a \in RegAddrs : BeatAlive(a)}
             /\ DOMAIN rservers = Range(ralive)
    /\ \A a \in DOMAIN rservers : rservers[a] = lastBeat[a]

\* C17 witness: a query has just returned both servers, in order
C17_Witness ==
    /\ rstatus = <<"GET", 200, TRUE>>
    /\ rtimeout = 2
    /\ ralive = <<1, 2>>
    /\ lastBeat[1] # lastBeat[2]
    /\ now = 2

\* the last call on the discovery was a Refresh, Get or GetAll, and neither
\* the clock nor the heartbeats have moved since
JustCalled == dnow /\ dop \in {"Refresh", "Get", "GetAll"}

\* C18 as stated: after any discovery refresh that returned no error, a server
\* whose heartbeats are within the registry timeout is in the list, and one
\* whose heartbeats stopped longer ago than the registry timeout is not
C18_RefreshFollowsHeartbeats ==
    (JustCalled /\ derr # ErrHTTP /\ rtimeout > 0)
        => \A a \in RegAddrs :
             /\ (lastBeat[a] # Never /\ lastBeat[a] + rtimeout > now)
                    => a \in Range(dservers)
             /\ (lastBeat[a] # Never /\ lastBeat[a] + rtimeout < now)
                    => a \notin Range(dservers)

\* C18 amended: a refresh asks the registry exactly when lastUpdate + timeout
\* of the discovery is not after now; when the registry answers, the list
\* becomes exactly the servers whose last heartbeat is within the registry
\* timeout (empty when the only server's heartbeats stopped longer ago), and
\* Get and GetAll answer from it; a refresh that does not ask leaves the
\* list as it was
C18_QueriedRefreshFollowsHeartbeats ==
    /\ []((JustCalled /\ dqueried)
            => /\ Range(dservers) = {a \in RegAddrs : BeatAlive(a)}
               /\ Ascending(dservers)
               /\ lastUpdate = now
               /\ dop = "GetAll" => (derr = NoErr /\ dall = dservers)
               /\ dop = "Get" =>
                     IF dservers = << >> THEN derr = ErrNoServers
                     ELSE derr = NoErr => dres \in Range(dservers))
    /\ []((JustCalled /\ ~dqueried)
            => (derr = ErrHTTP <=> ~(lastUpdate + dtimeout > now)))
    /\ [][(dnow' /\ ~dqueried' /\ dop' \in {"Refresh", "Get", "GetAll"})
            => (dservers' = dservers /\ lastUpdate' = lastUpdate)]_vars

\* C18 witness: the only server's heartbeats stopped longer ago than the
\* registry timeout, and a Get that asked the registry found no server
C18_Witness ==
    /\ JustCalled /\ dqueried
    /\ dop = "Get" /\ derr = ErrNoServers
    /\ rtimeout = 2
    /\ lastBeat[1] # Never /\ lastBeat[1] + rtimeout < now
    /\ lastBeat[2] = Never
    /\ dservers = << >>


\* the registrants whose Register of a service named n has returned, and those
\* of them it returned nil to
RegisterDone(n) == {r \in Registrants : regpc[r] = "done" /\ regName[r] = n}
Winners(n) == {r \in RegisterDone(n) : regRet[r] = NoErr}

\* C19: of the Register calls for one name, concurrent or not, exactly one
\* returns nil and every other one returns the duplicate error; the service
\* map keeps the service of the one that succeeded, a duplicate leaves it as
\* it was, and every lookup of the name finds that first service.
C19_DuplicateRefused ==
    /\ \A n \in ServiceNames :
          /\ RegisterDone(n) # {} => Cardinality(Winners(n)) = 1
          /\ \A r \in RegisterDone(n) \ Winners(n) : regRet[r] = ErrDup
          /\ n \in DOMAIN serviceMap <=> RegisterDone(n) # {}
          /\ n \in DOMAIN serviceMap => serviceMap[n] \in Winners(n)
    /\ DOMAIN serviceMap \subseteq ServiceNames
    /\ flast[2] # 0 => flast[2] \in Winners(flast[1])

\* three Register calls for one name have returned, one with nil and two with
\* the duplicate error, and a lookup after them found the first service
C19_Witness ==
    \E n \in ServiceNames : \E w \in Registrants :
        /\ RegisterDone(n) = Registrants
        /\ Winners(n) = {w}
        /\ \A r \in Registrants \ {w} : regRet[r] = ErrDup
        /\ serviceMap[n] = w
        /\ flast = <<n, w>>

\* C20: once ServeConn is past the handshake with an Option that does not
\* decode, has another magic number than Number or names a codec that is not
\* registered, it has returned: nothing was written to the connection, no
\* request frame was read from it, no request was dispatched, and the
\* connection is closed.
C20_BadHandshakeRefused ==
    (/\ spc # "handshake"
     /\ \/ ~hopt.decodes
        \/ hopt.number # Number
        \/ hopt.codec \notin CodecNames)
    => /\ spc = "refused"
       /\ connClosed
       /\ sout = << >>
       /\ Len(sin) = 2 * nreq
       /\ sreq = Garbage
       /\ \A q \in Seqs : hpc[q] = "none" /\ wpc[q] = "none"

\* a connection refused for its magic number alone, with a request the client
\* had already written left unread
C20_Witness ==
    /\ spc = "refused"
    /\ hopt.decodes
    /\ hopt.number # Number
    /\ hopt.codec \in CodecNames
    /\ nreq > 0
    /\ connClosed

\* the receiver loop finishes an iteration of the error case: removeCall found
\* the call, the header carries an Error and the body was read
ErrorResponseHandled ==
    /\ rpc = "body"
    /\ rpc' # "body"
    /\ rcall # NoCall
    /\ rhdr.err # ""
    /\ rerr' = NoErr

\* what an error response leaves alone: the other calls, the pending map, the
\* shutdown flag, and the loop, which goes on to the next header
ErrorResponseFrame ==
    /\ fired'[rcall] = fired[rcall] + 1
    /\ \A c \in Callers \ {rcall} :
          /\ callError'[c] = callError[c]
          /\ callReply'[c] = callReply[c]
          /\ fired'[c] = fired[c]
          /\ doneCh'[c] = doneCh[c]
    /\ pending' = pending
    /\ shutdown' = shutdown
    /\ rpc' = "hdr"

\* C21: a response whose header carries a non-empty Error completes only the
\* Call with that seq, and with that error: Call.Error is the header's Error;
\* every other call and the pending map stay as they are, the Client does not
\* become shutdown and the receiver loop goes on to the next header.
C21_ErrorCompletesOnlyItsCall ==
    [][ErrorResponseHandled =>
           (ErrorResponseFrame /\ callError'[rcall] = rhdr.err)]_vars

\* the same with the error as receive() builds it, fmt.Errorf(h.Error)
C21_ErrorfCompletesOnlyItsCall ==
    [][ErrorResponseHandled =>
           (ErrorResponseFrame /\ callError'[rcall] = Errorf(rhdr.err))]_vars

\* C22: the codec of a server connection is closed only after the dispatch
\* loop has left its read loop and every handleRequest and every worker it
\* started has finished, with the sending mutex free; once the codec is closed
\* nothing more is written to the connection.
C22_CloseAfterWorkers ==
    /\ [](sclosed =>
            /\ spc = "closed"
            /\ ssending = NoHolder
            /\ \A s \in Seqs : hpc[s] \in {"none", "done"}
                               /\ wpc[s] \in {"none", "done"})
    /\ [][sclosed => sout' = sout]_vars

\* a closed codec after two dispatched requests, one of which timed out while
\* its worker was still running: both responses of that request were written
\* before the close
C22_Witness ==
    /\ sclosed
    /\ \A s \in Seqs : hpc[s] = "done" /\ wpc[s] = "done"
    /\ \E s \in Seqs :
          /\ hErr[s] = ErrTimeout
          /\ Cardinality({i \in 1..Len(sout) :
                             sout[i].t = "H" /\ sout[i].seq = s}) = 2

\* the step is one of the holder w of the server's sending mutex
StepOf(w) ==
    IF w = Loop THEN spc' # spc
    ELSE IF w \in Seqs THEN wpc'[w] # wpc[w]
    ELSE hpc'[0 - w] # hpc[0 - w]

\* the server's output is whole frames, but for the header of the response
\* whose writer holds the mutex
ServerFramed ==
    /\ \A i \in 1..Len(sout) :
          i % 2 = 1 =>
            /\ sout[i].t = "H"
            /\ i < Len(sout) => sout[i + 1] = Body(sout[i].seq)
    /\ Len(sout) % 2 = 1 <=> ssending # NoHolder

\* while a response is being written only its writer writes, and what it
\* writes next is the body of that response
ServerWriterAlone ==
    (ssending # NoHolder /\ (sout' # sout \/ ssending' # ssending)) =>
        /\ StepOf(ssending)
        /\ sout' = Append(sout, Body(sout[Len(sout)].seq))
        /\ ssending' = NoHolder

\* the header scratch is that of the request whose sender holds the mutex
ClientScratchOwned ==
    sending \in Callers =>
        /\ pc[sending] \in {"hdr", "body", "flush"}
        /\ header.Seq = callSeq[sending]

\* from the header preparation to the end of the write the scratch does not
\* change, and only the sender writes, items of its own request
ClientWriterAlone ==
    sending \in Callers =>
        /\ header' = header
        /\ Len(cout') > Len(cout) =>
              /\ pc'[sending] # pc[sending]
              /\ Len(cout') = Len(cout) + 1
              /\ cout'[Len(cout')].seq = callSeq[sending]
        /\ sending' \in {sending, NoHolder}

\* C23: frames are never interleaved on a connection. On the server, between
\* the header and the body of one response no other response's writer (worker,
\* timeout supervisor, reader loop) writes or takes the mutex; on the client,
\* between a request's header preparation and the end of its write no other
\* request's header or body is written and the header scratch does not change.
C23_FramesNotInterleaved ==
    /\ [](ServerFramed /\ ClientScratchOwned)
    /\ [][ServerWriterAlone /\ ClientWriterAlone]_vars

\* a worker has written the header of its response while the timeout
\* supervisor of the other request is about to reply, and a caller has written
\* the header of its request while the other caller has not sent yet
C23_Witness ==
    /\ ssending = Worker(1)
    /\ Len(sout) % 2 = 1
    /\ hpc[2] = "select"
    /\ wpc[2] = "called"
    /\ sending = 1
    /\ pc[1] = "body"
    /\ pc[2] = "idle"

\* C24: every dispatched request whose method invocation returns, with or
\* without HandleTimeout and whether or not the timeout fired first, leads to
\* the worker having sent called and sent, the supervisor having received
\* both, and handleRequest having returned (wg.Done): nobody stays blocked on
\* the unbuffered channels.
C24_HandlersFinish ==
    \A s \in Seqs : (hpc[s] = "start") ~> (hpc[s] = "done" /\ wpc[s] = "done")

\* with HandleTimeout set, a request whose timeout fired before its method
\* returned has both its handler and its worker finished
C24_Witness ==
    \E s \in Seqs :
        /\ handleTimeout = 1
        /\ hErr[s] = ErrTimeout
        /\ hpc[s] = "done"
        /\ wpc[s] = "done"
        /\ ~sclosed

\* the Clients dialed so far, and those for address a that are not closed
Dialed == 1..nconn
Live(a) == {k \in Dialed : cfor[k] = a /\ cstate[k] # "closed"}

\* a Client that is not (or no longer) in the cache has been closed; a dial
\* that goes on to XDial finds no entry for its address; at most one Client
\* per address is not closed, and the cache holds it; dials of one address
\* that returned different Clients did so only because the earlier Client
\* was closed in between
CacheInv ==
    /\ \A k \in Dialed : Lookup(clients, cfor[k]) # k => cstate[k] = "closed"
    /\ \A d \in Dialers :
          (dpc[d] = "dial" /\ dcl[d] = 0) => daddr[d] \notin DOMAIN clients
    /\ \A a \in DialAddrs :
          /\ Cardinality(Live(a)) <= 1
          /\ a \in DOMAIN clients => Live(a) \subseteq {clients[a]}
    /\ DOMAIN clients \subseteq DialAddrs
    /\ \A d, e \in Dialers :
          (/\ dpc[d] = "done" /\ dpc[e] = "done" /\ daddr[d] = daddr[e]
           /\ dret[d] # 0 /\ dret[d] < dret[e])
          => cstate[dret[d]] = "closed"

\* the return of a dial: a cached Client that is available is returned as it
\* is, without a new connection; a failed XDial opens nothing and leaves no
\* entry for the address
DialReturns ==
    \A d \in Dialers :
        (dpc[d] = "dial" /\ dpc'[d] = "done") =>
            /\ dcl[d] # 0 => (dret'[d] = dcl[d] /\ nconn' = nconn)
            /\ dret'[d] = 0 =>
                  (nconn' = nconn /\ daddr[d] \notin DOMAIN clients')
            /\ dret'[d] # 0 => clients'[daddr[d]] = dret'[d]

\* C25: under any interleaving of concurrent dials, Clients going down and
\* XClient.Close: a cached Client that is not available is closed and removed
\* before a new one is dialed, the cache holds at most one Client per address
\* and no other Client is left open, dials of one address share the Client and
\* its one connection, and a failed dial leaves no cache entry.
C25_DialCache ==
    /\ []CacheInv
    /\ [][DialReturns]_vars

\* four dials are over: the first opened a connection to address 1 that went
\* down, the next closed it and dialed again, a third was given the same new
\* Client, and a dial of address 2 failed, leaving no entry
C25_Witness ==
    /\ \A d \in Dialers : dpc[d] = "done"
    /\ nconn = 2
    /\ cstate[1] = "closed"
    /\ clients = With(<< >>, 1, 2)
    /\ \E d, e, f, g \in Dialers :
          /\ dret[d] = 1
          /\ d # e /\ e # f /\ d # f
          /\ dret[e] = 2 /\ dret[f] = 2
          /\ dret[g] = 0 /\ daddr[g] = 2

\* the call of c is in pending while Close has been called
PendingAtClose(c) == closing /\ c \in Pending

LockOrder ==
    /\ lmu # NoHolder => lsending = lmu
    /\ \A t \in LUsers \cup {LRecv} :
          lpc[t] \in {"idle", "lockSending"} => lmu # t

\* C27: send, terminateCalls, removeCall, Close, IsAvailable and the receiver
\* loop on one Client never deadlock: client.sending is taken before client.mu,
\* nobody waits for client.sending while holding client.mu, and nobody stays
\* blocked forever while holding either lock, so each lock that is held is
\* released again.
C27_NoDeadlock ==
    /\ []LockOrder
    /\ (lsending # NoHolder) ~> (lsending = NoHolder)
    /\ (lmu # NoHolder) ~> (lmu = NoHolder)

\* the lock order alone
C27_LockOrder == []LockOrder

\* every per-address call of the Broadcast returned nil
AllCallsNil == \A a \in bservers : terr[a] = NoErr

RoundRobinPicked == dop' = "Get" /\ Len(rr') = Len(rr) + 1

\* C29: whatever Updates came before, to longer or shorter lists, a Get on an
\* empty list returns the no-servers error, and a Get(RoundRobinSelect) on a
\* list of n > 0 servers reads a position in [0, n), returns the element of the
\* current list at that position, and leaves the stored index in [0, n).
C29_GetStaysInRange ==
    [][/\ (dop' = "Get" /\ Len(dservers) = 0) =>
             (derr' = ErrNoServers /\ dres' = 0 /\ dindex' = dindex)
       /\ RoundRobinPicked =>
             /\ Len(dservers) > 0
             /\ rr'[Len(rr')].idx \in 0..(Len(dservers) - 1)
             /\ dres' = dservers[rr'[Len(rr')].idx + 1]
             /\ dres' \in Range(dservers)
             /\ derr' = NoErr
             /\ dindex' \in 0..(Len(dservers) - 1)
             /\ dservers' = dservers]_vars

\* a round-robin Get found the stored index beyond the end of the current
\* list, as an Update to a shorter list or the random initial index leaves
\* it, and returned a server of that list
C29_Witness ==
    /\ dop = "Get"
    /\ Len(rr) = 1
    /\ Len(dservers) = 2
    /\ rr[1].raw >= Len(dservers)
    /\ dres \in Range(dservers)
    /\ dindex < Len(dservers)
====
